---- MODULE Spec2Model ----
(***************************************************************************)
(* ComfyUI_PromptStyler: the style library loader, its process-wide cache  *)
(* and the prompt composer of nodes.py.                                    *)
(*                                                                         *)
(* A Python str is a sequence of one-character strings; Python's None and  *)
(* the values json.load produces are tagged records (see "Python values"). *)
(***************************************************************************)
EXTENDS Integers, Sequences, FiniteSets, TLC

(***************************************************************************)
(* Characters.  Ascii lists the printable characters in code-point order,  *)
(* so a character's code point is its place in the table plus 31.  The     *)
(* grave accent (code point 96) cannot be written in a TLA+ string; the    *)
(* entry "GRAVE" holds its place.                                          *)
(***************************************************************************)
Ascii ==
    << " ", "!", "\"", "#", "$", "%", "&", "'", "(", ")", "*", "+", ",", "-", ".", "/",
       "0", "1", "2", "3", "4", "5", "6", "7", "8", "9", ":", ";", "<", "=", ">", "?",
       "@", "A", "B", "C", "D", "E", "F", "G", "H", "I", "J", "K", "L", "M", "N", "O",
       "P", "Q", "R", "S", "T", "U", "V", "W", "X", "Y", "Z", "[", "\\", "]", "^", "_",
       "GRAVE", "a", "b", "c", "d", "e", "f", "g", "h", "i", "j", "k", "l", "m", "n", "o",
       "p", "q", "r", "s", "t", "u", "v", "w", "x", "y", "z", "{", "|", "}", "~" >>

Control ==
    {"\t", "\n", "\r"}

Chars ==
    {Ascii[i] : i \in 1..Len(Ascii)} \cup Control

\* ord(c): the code point of a character.
OrdTable ==
    [c \in Chars |->
        CASE c = "\t" -> 9
          [] c = "\n" -> 10
          [] c = "\r" -> 13
          [] OTHER -> 31 + (CHOOSE i \in 1..Len(Ascii) : Ascii[i] = c)]

Ord(c) ==
    OrdTable[c]

\* str.casefold on one character: within ASCII, an upper-case letter becomes
\* its lower-case letter and every other character is kept.
FoldTable ==
    [c \in Chars |->
        IF c \in Control THEN c
        ELSE LET o == OrdTable[c]
             IN  IF o >= 65 /\ o =< 90 THEN Ascii[o + 32 - 31] ELSE c]

\* The characters str.split() and str.strip() treat as whitespace.
IsSpace(c) ==
    c \in {" ", "\t", "\n", "\r"}

(***************************************************************************)
(* The str methods nodes.py uses.                                          *)
(***************************************************************************)
\* s.casefold()
casefold(s) ==
    [i \in 1..Len(s) |-> FoldTable[s[i]]]

\* s.replace(old, new) for one-character old and new.
replace(s, old, new) ==
    [i \in 1..Len(s) |-> IF s[i] = old THEN new ELSE s[i]]

\* s.lstrip() / s.rstrip() / s.strip()
RECURSIVE lstrip(_)
lstrip(s) ==
    IF s # <<>> /\ IsSpace(Head(s)) THEN lstrip(Tail(s)) ELSE s

RECURSIVE rstrip(_)
rstrip(s) ==
    IF s # <<>> /\ IsSpace(s[Len(s)]) THEN rstrip(SubSeq(s, 1, Len(s) - 1)) ELSE s

strip(s) ==
    rstrip(lstrip(s))

\* s.split(): the maximal runs of non-whitespace characters, in order.
\* `word` is the run being read, `out` the runs already closed.
RECURSIVE SplitWsFrom(_, _, _)
SplitWsFrom(s, word, out) ==
    IF s = <<>>
    THEN IF word = <<>> THEN out ELSE Append(out, word)
    ELSE IF IsSpace(Head(s))
         THEN SplitWsFrom(Tail(s), <<>>, IF word = <<>> THEN out ELSE Append(out, word))
         ELSE SplitWsFrom(Tail(s), Append(word, Head(s)), out)

split_ws(s) ==
    SplitWsFrom(s, <<>>, <<>>)

\* sep.join(parts)
RECURSIVE join(_, _)
join(sep, parts) ==
    IF parts = <<>> THEN <<>>
    ELSE IF Len(parts) = 1 THEN parts[1]
    ELSE parts[1] \o sep \o join(sep, Tail(parts))

\* s.startswith(p) / s.endswith(p)
startswith(s, p) ==
    Len(s) >= Len(p) /\ SubSeq(s, 1, Len(p)) = p

endswith(s, p) ==
    Len(s) >= Len(p) /\ SubSeq(s, Len(s) - Len(p) + 1, Len(s)) = p

\* s.split(sep) for a non-empty sep: cut at each occurrence of sep, scanning
\* left to right; always at least one part.
RECURSIVE SplitSepFrom(_, _, _, _)
SplitSepFrom(s, sep, part, out) ==
    IF s = <<>> THEN Append(out, part)
    ELSE IF startswith(s, sep)
         THEN SplitSepFrom(SubSeq(s, Len(sep) + 1, Len(s)), sep, <<>>, Append(out, part))
         ELSE SplitSepFrom(Tail(s), sep, Append(part, Head(s)), out)

split(s, sep) ==
    SplitSepFrom(s, sep, <<>>, <<>>)

\* s.rsplit(sep, 1)[-1] for a one-character sep: the text after the last sep,
\* or all of s when sep does not occur.
RECURSIVE rsplit_last(_, _)
rsplit_last(s, sep) ==
    IF s = <<>> THEN <<>>
    ELSE IF s[Len(s)] = sep THEN <<>>
    ELSE Append(rsplit_last(SubSeq(s, 1, Len(s) - 1), sep), s[Len(s)])

(***************************************************************************)
(* Text normalizer (nodes.py, lines 13-35).                                *)
(***************************************************************************)
\* An argument that may be None is a tagged value: NoneVal, or [s |-> chars]
\* for a str.  `s or ""` gives the characters of s, and none for None.
NoneVal ==
    [none |-> TRUE]

or_empty(s) ==
    IF s = NoneVal THEN <<>> ELSE s.s

\* Fault: the text is split on the space character only, so that runs of
\* whitespace are kept.
norm_space_split_on_space(s) ==
    join(<<" ">>, split(replace(replace(or_empty(s), "\r", " "), "\n", " "), <<" ">>))

norm_space(s) ==
    join(<<" ">>, split_ws(replace(replace(or_empty(s), "\r", " "), "\n", " ")))

\* [p for p in parts if p]
RECURSIVE DropEmpty(_)
DropEmpty(parts) ==
    IF parts = <<>> THEN <<>>
    ELSE IF Head(parts) # <<>> THEN <<Head(parts)>> \o DropEmpty(Tail(parts))
    ELSE DropEmpty(Tail(parts))

split_phrases(s, sep) ==
    LET n == norm_space(s)
    IN  IF n = <<>> THEN <<>>
        ELSE LET raw == split(n, sep)
                 parts == [i \in 1..Len(raw) |-> strip(raw[i])]
             IN  DropEmpty(parts)

\* The loop of _dedupe_phrases: `seen` holds the case-folded phrases already
\* kept, `out` the phrases kept so far.
RECURSIVE DedupeLoop(_, _, _)
DedupeLoop(phrases, seen, out) ==
    IF phrases = <<>> THEN out
    ELSE LET p == Head(phrases)
             k == casefold(p)
         IN  IF k \in seen
             THEN DedupeLoop(Tail(phrases), seen, out)
             ELSE DedupeLoop(Tail(phrases), seen \cup {k}, Append(out, p))

\* Fault: phrases compared as written, without case folding.
RECURSIVE DedupeExactLoop(_, _, _)
DedupeExactLoop(phrases, seen, out) ==
    IF phrases = <<>> THEN out
    ELSE IF Head(phrases) \in seen
         THEN DedupeExactLoop(Tail(phrases), seen, out)
         ELSE DedupeExactLoop(Tail(phrases), seen \cup {Head(phrases)},
                              Append(out, Head(phrases)))

dedupe_phrases_exact(phrases) ==
    DedupeExactLoop(phrases, {}, <<>>)

\* Fault: the last occurrence of a phrase is kept instead of the first.
RECURSIVE DedupeLastLoop(_)
DedupeLastLoop(phrases) ==
    IF phrases = <<>> THEN <<>>
    ELSE IF \E i \in 2..Len(phrases) : casefold(phrases[i]) = casefold(Head(phrases))
         THEN DedupeLastLoop(Tail(phrases))
         ELSE <<Head(phrases)>> \o DedupeLastLoop(Tail(phrases))

dedupe_phrases_last(phrases) ==
    DedupeLastLoop(phrases)

\* Fault: the case-folded phrase is kept in place of the phrase as written.
RECURSIVE DedupeFoldedLoop(_, _, _)
DedupeFoldedLoop(phrases, seen, out) ==
    IF phrases = <<>> THEN out
    ELSE LET k == casefold(Head(phrases))
         IN  IF k \in seen
             THEN DedupeFoldedLoop(Tail(phrases), seen, out)
             ELSE DedupeFoldedLoop(Tail(phrases), seen \cup {k}, Append(out, k))

dedupe_phrases_folded(phrases) ==
    DedupeFoldedLoop(phrases, {}, <<>>)

dedupe_phrases(phrases) ==
    DedupeLoop(phrases, {}, <<>>)

(***************************************************************************)
(* Python values.  A value json.load can return is a tagged record: a str  *)
(* is [s |-> characters], a number [n |-> n], a bool [b |-> b], a list     *)
(* [l |-> items], a dict [d |-> function from its keys] and null (None) is *)
(* NoneVal.  Dict keys are TLA+ strings: the code only looks them up.      *)
(***************************************************************************)
JStr(chars) ==
    [s |-> chars]

JNum(k) ==
    [n |-> k]

JBool(v) ==
    [b |-> v]

JList(items) ==
    [l |-> items]

JDict(fields) ==
    [d |-> fields]

EmptyDict ==
    JDict(<<>>)

EmptyList ==
    JList(<<>>)

IsStr(v) ==
    "s" \in DOMAIN v

IsNum(v) ==
    "n" \in DOMAIN v

IsBool(v) ==
    "b" \in DOMAIN v

IsList(v) ==
    "l" \in DOMAIN v

\* isinstance(v, dict)
IsDict(v) ==
    "d" \in DOMAIN v

\* bool(v): None, False, 0, "", [] and {} are false, every other value true.
Truthy(v) ==
    CASE v = NoneVal -> FALSE
      [] IsBool(v) -> v.b
      [] IsNum(v) -> v.n # 0
      [] IsStr(v) -> v.s # <<>>
      [] IsList(v) -> v.l # <<>>
      [] IsDict(v) -> DOMAIN v.d # {}

\* a or b
py_or(a, b) ==
    IF Truthy(a) THEN a ELSE b

\* dict.get(key, default) on a dict value.
dict_get(dv, key, default) ==
    IF key \in DOMAIN dv.d THEN dv.d[key] ELSE default

\* str(k) for an int k >= 0: its decimal digits.
RECURSIVE Digits(_)
Digits(k) ==
    IF k < 10 THEN <<Ascii[17 + k]>> ELSE Append(Digits(k \div 10), Ascii[17 + (k % 10)])

\* str(v), for the values whose text the model needs: a str is itself, None
\* is "None", a bool "True"/"False", an empty list "[]", an empty dict "{}".
py_str(v) ==
    CASE IsStr(v) -> v.s
      [] v = NoneVal -> <<"N", "o", "n", "e">>
      [] IsNum(v) -> Digits(v.n)
      [] IsBool(v) -> IF v.b THEN <<"T", "r", "u", "e">> ELSE <<"F", "a", "l", "s", "e">>
      [] v = EmptyList -> <<"[", "]">>
      [] v = EmptyDict -> <<"{", "}">>

\* A call that can raise returns Raise(kind) when an exception of that kind
\* leaves it and Ok(value) when it returns value.
Raise(kind) ==
    [raise |-> kind]

Ok(value) ==
    [ok |-> value]

Raised(r) ==
    "raise" \in DOMAIN r

\* tuple(v): the items of a list, the characters of a str and the keys of a
\* dict (the model holds no non-empty dict here); a number or a bool is not
\* iterable and raises TypeError.
py_tuple(v) ==
    CASE IsList(v) -> Ok(v.l)
      [] IsStr(v) -> Ok([i \in 1..Len(v.s) |-> JStr(<<v.s[i]>>)])
      [] v = EmptyDict -> Ok(<<>>)
      [] IsNum(v) \/ IsBool(v) \/ v = NoneVal -> Raise("TypeError")

(***************************************************************************)
(* String order: Python compares str values by code point, and tuples of   *)
(* str lexicographically.                                                  *)
(***************************************************************************)
RECURSIVE StrLess(_, _)
StrLess(a, b) ==
    IF b = <<>> THEN FALSE
    ELSE IF a = <<>> THEN TRUE
    ELSE IF Head(a) = Head(b) THEN StrLess(Tail(a), Tail(b))
    ELSE Ord(Head(a)) < Ord(Head(b))

RECURSIVE KeyLess(_, _)
KeyLess(k1, k2) ==
    IF k1 = <<>> \/ k2 = <<>> THEN k1 = <<>> /\ k2 # <<>>
    ELSE IF Head(k1) = Head(k2) THEN KeyLess(Tail(k1), Tail(k2))
    ELSE StrLess(Head(k1), Head(k2))

\* sorted(names) for a set of distinct str values.
RECURSIVE SortedNames(_)
SortedNames(names) ==
    IF names = {} THEN <<>>
    ELSE LET least == CHOOSE m \in names : \A o \in names \ {m} : StrLess(m, o)
         IN  <<least>> \o SortedNames(names \ {least})

(***************************************************************************)
(* Paths and files.  A file is its parsed content (`json`: the value       *)
(* json.load returns, or InvalidJson when the text does not parse), its    *)
(* modification time and its size.  The disk holds whether styles/packs is *)
(* a directory, the files in it by name, and the legacy file (or NoFile).  *)
(***************************************************************************)
STYLES_PATH ==
    [dir |-> "styles", name |-> <<"s", "t", "y", "l", "e", "s", "_", "v", "1", ".", "j", "s", "o", "n">>]

\* os.path.join(_STYLE_PACKS_DIR, name)
PackPath(name) ==
    [dir |-> "styles/packs", name |-> name]

InvalidJson ==
    [invalid |-> TRUE]

NoFile ==
    [missing |-> TRUE]

File(json, mtime, size) ==
    [json |-> json, mtime |-> mtime, size |-> size]

\* The file at a path, or NoFile.
FileAt(d, path) ==
    IF path = STYLES_PATH THEN d.legacy
    ELSE IF d.isdir /\ path.dir = "styles/packs" /\ path.name \in DOMAIN d.packs
         THEN d.packs[path.name]
         ELSE NoFile

\* Fault: the size of the file is left out of its signature.
file_sig_without_size(d, path) ==
    LET f == FileAt(d, path)
    IN  IF f = NoFile THEN <<path, -1, -1>> ELSE <<path, f.mtime, 0>>

\* _file_sig: (path, mtime, size), or (path, -1.0, -1) when os.stat fails.
file_sig(d, path) ==
    LET f == FileAt(d, path)
    IN  IF f = NoFile THEN <<path, -1, -1>> ELSE <<path, f.mtime, f.size>>

JsonSuffix ==
    <<".", "j", "s", "o", "n">>

\* The loop of _iter_pack_paths over the sorted directory listing.
RECURSIVE PackPathsOf(_)
PackPathsOf(names) ==
    IF names = <<>> THEN <<>>
    ELSE IF endswith(casefold(Head(names)), JsonSuffix)
         THEN <<PackPath(Head(names))>> \o PackPathsOf(Tail(names))
         ELSE PackPathsOf(Tail(names))

iter_pack_paths(d) ==
    IF ~d.isdir THEN <<>> ELSE PackPathsOf(SortedNames(DOMAIN d.packs))

\* _style_sources_sig: the tuple of file signatures, tagged `sig` so that it
\* can be compared with the None the cache starts with.
style_sources_sig(d, path) ==
    LET pack_paths == iter_pack_paths(d)
        sources == IF pack_paths # <<>> THEN Append(pack_paths, path) ELSE <<path>>
    IN  [sig |-> [i \in 1..Len(sources) |-> file_sig(d, sources[i])]]

\* [s for s in styles if isinstance(s, dict)]
RECURSIVE OnlyDicts(_)
OnlyDicts(items) ==
    IF items = <<>> THEN <<>>
    ELSE IF IsDict(Head(items)) THEN <<Head(items)>> \o OnlyDicts(Tail(items))
    ELSE OnlyDicts(Tail(items))

\* _load_styles_file: open() raises on a missing file, json.load on text that
\* does not parse; otherwise the dict items of the root's "styles" list.
load_styles_file(d, path) ==
    LET f == FileAt(d, path)
    IN  IF f = NoFile THEN Raise("OSError")
        ELSE IF f.json = InvalidJson THEN Raise("JSONDecodeError")
        ELSE LET data == py_or(f.json, EmptyDict)
             IN  IF ~IsDict(data) THEN Ok(<<>>)
                 ELSE LET styles == py_or(dict_get(data, "styles", EmptyList), EmptyList)
                      IN  IF ~IsList(styles) THEN Ok(<<>>) ELSE Ok(OnlyDicts(styles.l))

\* Fault: the loop over the packs ends at the first pack that raises.
RECURSIVE MergePacksUntilBroken(_, _, _)
MergePacksUntilBroken(d, pack_paths, merged) ==
    IF pack_paths = <<>> THEN merged
    ELSE LET part == load_styles_file(d, Head(pack_paths))
         IN  IF Raised(part) THEN merged
             ELSE MergePacksUntilBroken(d, Tail(pack_paths), merged \o part.ok)

\* The loop of _load_style_sources over the pack paths: a pack that raises is
\* skipped with a warning, an empty one is skipped.
RECURSIVE MergePacks(_, _, _)
MergePacks(d, pack_paths, merged) ==
    IF pack_paths = <<>> THEN merged
    ELSE LET part == load_styles_file(d, Head(pack_paths))
         IN  IF Raised(part) \/ part.ok = <<>>
             THEN MergePacks(d, Tail(pack_paths), merged)
             ELSE MergePacks(d, Tail(pack_paths), merged \o part.ok)

\* Fault: no fall back to the legacy file when the packs give nothing.
load_style_sources_without_fallback(d, path) ==
    LET pack_paths == iter_pack_paths(d)
    IN  IF pack_paths = <<>>
        THEN LET only == load_styles_file(d, path)
             IN  IF Raised(only) THEN <<>> ELSE only.ok
        ELSE MergePacks(d, pack_paths, <<>>)

\* Fault: without packs nothing is loaded.
load_style_sources_packs_only(d, path) ==
    LET pack_paths == iter_pack_paths(d)
    IN  IF pack_paths = <<>> THEN <<>>
        ELSE LET merged == MergePacks(d, pack_paths, <<>>)
             IN  IF merged = <<>>
                 THEN LET legacy == load_styles_file(d, path)
                      IN  IF Raised(legacy) THEN <<>>
                          ELSE IF legacy.ok # <<>> THEN legacy.ok
                          ELSE merged
                 ELSE merged

load_style_sources(d, path) ==
    LET pack_paths == iter_pack_paths(d)
    IN  IF pack_paths = <<>>
        THEN LET only == load_styles_file(d, path)
             IN  IF Raised(only) THEN <<>> ELSE only.ok
        ELSE LET merged == MergePacks(d, pack_paths, <<>>)
             IN  IF merged = <<>>
                 THEN LET legacy == load_styles_file(d, path)
                      IN  IF Raised(legacy) THEN <<>>
                          ELSE IF legacy.ok # <<>> THEN legacy.ok
                          ELSE merged
                 ELSE merged

(***************************************************************************)
(* Style templates and the catalog build (nodes.py, lines 38-47, 139-200). *)
(***************************************************************************)
Uncategorized ==
    <<"U", "n", "c", "a", "t", "e", "g", "o", "r", "i", "z", "e", "d">>

FluxKey ==
    "flux_2_klein"

\* The body of the loop of _get_style_library for one raw record: Ok(<<>>)
\* when the record is skipped, Ok(<<template>>) when it gives a template,
\* Raise when building the template raises.
template_of(raw) ==
    LET sid == dict_get(raw, "id", NoneVal)
        name == dict_get(raw, "name", NoneVal)
    IN  IF sid = NoneVal \/ name = NoneVal THEN Ok(<<>>)
        ELSE LET default0 == py_or(dict_get(raw, "default", EmptyDict), EmptyDict)
                 default == IF IsDict(default0) THEN default0 ELSE EmptyDict
                 models0 == py_or(dict_get(raw, "models", EmptyDict), EmptyDict)
                 models == IF IsDict(models0) THEN models0 ELSE EmptyDict
                 flux0 == py_or(dict_get(models, FluxKey, EmptyDict), EmptyDict)
                 flux == IF IsDict(flux0) THEN flux0 ELSE EmptyDict
                 tags == py_tuple(py_or(dict_get(raw, "tags", EmptyList), EmptyList))
             IN  IF Raised(tags) THEN tags
                 ELSE Ok(<< [id |-> py_str(sid),
                             name |-> py_str(name),
                             category |-> py_str(dict_get(raw, "category", JStr(Uncategorized))),
                             prefix |-> py_str(dict_get(default, "prefix", JStr(<<>>))),
                             suffix |-> py_str(dict_get(default, "suffix", JStr(<<>>))),
                             flux_prefix |-> py_str(py_or(dict_get(flux, "prefix", JStr(<<>>)), JStr(<<>>))),
                             flux_suffix |-> py_str(py_or(dict_get(flux, "suffix", JStr(<<>>)), JStr(<<>>))),
                             tags |-> tags.ok] >>)

RECURSIVE BuildStyles(_, _)
BuildStyles(raw_styles, styles) ==
    IF raw_styles = <<>> THEN Ok(styles)
    ELSE LET t == template_of(Head(raw_styles))
         IN  IF Raised(t) THEN t ELSE BuildStyles(Tail(raw_styles), styles \o t.ok)

\* Fault: the first template with an id keeps its place in the index.
RECURSIVE ByIdFirstWins(_, _)
ByIdFirstWins(styles, acc) ==
    IF styles = <<>> THEN acc
    ELSE LET t == Head(styles)
         IN  ByIdFirstWins(Tail(styles),
                           [k \in DOMAIN acc \cup {t.id} |->
                               IF k \in DOMAIN acc THEN acc[k] ELSE t])

\* {s.id: s for s in styles}: a later template replaces an earlier one.
RECURSIVE ById(_, _)
ById(styles, acc) ==
    IF styles = <<>> THEN acc
    ELSE LET t == Head(styles)
         IN  ById(Tail(styles),
                  [k \in DOMAIN acc \cup {t.id} |-> IF k = t.id THEN t ELSE acc[k]])

SortKey(t) ==
    <<casefold(t.category), casefold(t.name), t.id>>

\* sorted(styles, key=...): stable, so an insertion after every entry whose
\* key is not greater.
RECURSIVE InsertSorted(_, _)
InsertSorted(sorted, t) ==
    IF sorted = <<>> THEN <<t>>
    ELSE IF KeyLess(SortKey(t), SortKey(Head(sorted))) THEN <<t>> \o sorted
    ELSE <<Head(sorted)>> \o InsertSorted(Tail(sorted), t)

RECURSIVE SortStyles(_, _)
SortStyles(styles, sorted) ==
    IF styles = <<>> THEN sorted
    ELSE SortStyles(Tail(styles), InsertSorted(sorted, Head(styles)))

Bar ==
    <<" ", "|", " ">>

\* f"{s.category} | {s.name} | {s.id}"
ChoiceLabel(t) ==
    t.category \o Bar \o t.name \o Bar \o t.id

\* Fault: the labels in the order of the templates, not sorted.
choices_in_load_order(styles) ==
    [i \in 1..Len(styles) |-> ChoiceLabel(styles[i])]

choices_for_styles(styles) ==
    LET styles_sorted == SortStyles(styles, <<>>)
    IN  [i \in 1..Len(styles_sorted) |-> ChoiceLabel(styles_sorted[i])]

NoStylesChoice ==
    <<"(", "n", "o", " ", "s", "t", "y", "l", "e", "s", " ", "f", "o", "u", "n", "d", ")",
      " ", "|", " ", "(", "n", "o", " ", "s", "t", "y", "l", "e", "s", ")",
      " ", "|", " ", "_", "_", "n", "o", "n", "e", "_", "_">>

\* The loop of _style_by_choice.
RECURSIVE FirstWithId(_, _)
FirstWithId(styles, sid) ==
    IF styles = <<>> THEN NoneVal
    ELSE IF Head(styles).id = sid THEN Head(styles)
    ELSE FirstWithId(Tail(styles), sid)

\* Fault: the text after the last "|" is compared as it is, not trimmed.
style_by_choice_untrimmed(styles, choice) ==
    IF ~Truthy(choice) THEN NoneVal
    ELSE FirstWithId(styles, rsplit_last(choice.s, "|"))

\* Fault: a label that matches no template falls back to the first template.
style_by_choice_fallback(styles, choice) ==
    IF ~Truthy(choice) \/ styles = <<>> THEN NoneVal
    ELSE IF FirstWithId(styles, strip(rsplit_last(choice.s, "|"))) = NoneVal THEN Head(styles)
    ELSE FirstWithId(styles, strip(rsplit_last(choice.s, "|")))

\* _style_by_choice: `choice` may be None.
style_by_choice(styles, choice) ==
    IF ~Truthy(choice) THEN NoneVal
    ELSE FirstWithId(styles, strip(rsplit_last(choice.s, "|")))

\* The four module globals as one record.
Cache(sig, styles, by_id, choices) ==
    [sig |-> sig, styles |-> styles, by_id |-> by_id, choices |-> choices]

\* Fault: the labels of an empty library are the empty list.
get_style_library_without_sentinel(d, c, path) ==
    LET sig == style_sources_sig(d, path)
    IN  IF sig = c.sig
        THEN [cache |-> c, loaded |-> FALSE, result |-> Ok(c)]
        ELSE LET built == BuildStyles(load_style_sources(d, path), <<>>)
             IN  IF Raised(built)
                 THEN [cache |-> c, loaded |-> TRUE, result |-> built]
                 ELSE LET styles == built.ok
                          new == Cache(sig, styles, ById(styles, <<>>), choices_for_styles(styles))
                      IN  [cache |-> new, loaded |-> TRUE, result |-> Ok(new)]

\* Fault: the signature is stored before the records are mapped, so that a
\* load that raises leaves the new signature with the old library.
get_style_library_sig_first(d, c, path) ==
    LET sig == style_sources_sig(d, path)
    IN  IF sig = c.sig
        THEN [cache |-> c, loaded |-> FALSE, result |-> Ok(c)]
        ELSE LET built == BuildStyles(load_style_sources(d, path), <<>>)
             IN  IF Raised(built)
                 THEN [cache |-> [c EXCEPT !.sig = sig], loaded |-> TRUE, result |-> built]
                 ELSE LET styles == built.ok
                          by_id == ById(styles, <<>>)
                          choices == IF styles # <<>> THEN choices_for_styles(styles)
                                     ELSE <<NoStylesChoice>>
                          new == Cache(sig, styles, by_id, choices)
                      IN  [cache |-> new, loaded |-> TRUE, result |-> Ok(new)]

\* _get_style_library on disk d with cache c: the cache after the call, whether
\* the sources were loaded, and Ok(the triple returned) or the exception.
get_style_library(d, c, path) ==
    LET sig == style_sources_sig(d, path)
    IN  IF sig = c.sig
        THEN [cache |-> c, loaded |-> FALSE, result |-> Ok(c)]
        ELSE LET built == BuildStyles(load_style_sources(d, path), <<>>)
             IN  IF Raised(built)
                 THEN [cache |-> c, loaded |-> TRUE, result |-> built]
                 ELSE LET styles == built.ok
                          by_id == ById(styles, <<>>)
                          choices == IF styles # <<>> THEN choices_for_styles(styles)
                                     ELSE <<NoStylesChoice>>
                          new == Cache(sig, styles, by_id, choices)
                      IN  [cache |-> new, loaded |-> TRUE, result |-> Ok(new)]

(***************************************************************************)
(* The node (nodes.py, lines 203-271).  The text encoder is an opaque      *)
(* capability: tokenize and encode_from_tokens_scheduled return a value    *)
(* that records what they were given, and the calls made are logged.       *)
(***************************************************************************)
Sep ==
    <<",", " ">>

Tokens(text) ==
    [tokens_of |-> text]

Conditioning(tokens) ==
    [conditioning_of |-> tokens]

\* What one call of a node method did: the result (Ok or Raise), the calls it
\* made to the text encoder, how often it asked for the style library and
\* whether that loaded the sources; for encode also the local `chosen` (NoneVal
\* when no template was chosen) and the branch of line 258 it ran.
Outcome(result, encoder_calls, library_calls, loaded, chosen, branch) ==
    [result |-> result, encoder_calls |-> encoder_calls,
     library_calls |-> library_calls, loaded |-> loaded,
     chosen |-> chosen, branch |-> branch]

\* Fault: the styled prompt is handed to the encode step without tokenize.
encode_tail_untokenized(styled_prompt, library_calls, loaded, chosen, branch) ==
    Outcome(Ok(<<Conditioning(styled_prompt), styled_prompt>>),
            << <<"encode_from_tokens_scheduled", styled_prompt>> >>,
            library_calls, loaded, chosen, branch)

\* Lines 269-271: tokenize, encode, return.
encode_tail(styled_prompt, library_calls, loaded, chosen, branch) ==
    Outcome(Ok(<<Conditioning(Tokens(styled_prompt)), styled_prompt>>),
            << <<"tokenize", styled_prompt>>,
               <<"encode_from_tokens_scheduled", Tokens(styled_prompt)>> >>,
            library_calls, loaded, chosen, branch)

\* Fault: the variant is used whenever it is asked for, blank or not.
use_flux_always(chosen, template_variant) ==
    template_variant = FluxKey

\* The condition of line 258.
use_flux(chosen, template_variant) ==
    /\ template_variant = FluxKey
    /\ (strip(chosen.flux_prefix) # <<>> \/ strip(chosen.flux_suffix) # <<>>)

\* Fault: the variant fragments spliced as phrases around the prompt.
flux_styled_spliced(chosen, prompt) ==
    join(Sep, dedupe_phrases(split_phrases(JStr(chosen.flux_prefix), Sep)
                              \o split_phrases(JStr(prompt), Sep)
                              \o split_phrases(JStr(chosen.flux_suffix), Sep)))

\* Line 259.
flux_styled(chosen, prompt) ==
    norm_space(JStr(join(<<" ">>, <<prompt, chosen.flux_prefix, chosen.flux_suffix>>)))

\* Lines 261-267.
default_styled(chosen, prompt) ==
    join(Sep, DropEmpty(dedupe_phrases(split_phrases(JStr(chosen.prefix), Sep)
                                        \o split_phrases(JStr(prompt), Sep)
                                        \o split_phrases(JStr(chosen.suffix), Sep))))

\* Lines 258-267: the styled prompt of a chosen template.
styled_with(chosen, prompt, template_variant) ==
    IF use_flux(chosen, template_variant) THEN flux_styled(chosen, prompt)
    ELSE default_styled(chosen, prompt)

\* Fault: an override no template has is ignored and the label is used.
choose_with_label_fallback(lib, style, override) ==
    IF override # <<>> /\ override \in DOMAIN lib.by_id THEN Ok(lib.by_id[override])
    ELSE IF style_by_choice(lib.styles, style) = NoneVal
         THEN Raise("ValueError: No style selected.")
         ELSE Ok(style_by_choice(lib.styles, style))

\* Fault: a label that resolves is used before the override is looked at.
choose_with_label_first(lib, style, override) ==
    IF style_by_choice(lib.styles, style) # NoneVal
    THEN Ok(style_by_choice(lib.styles, style))
    ELSE IF override = <<>> THEN Raise("ValueError: No style selected.")
    ELSE IF override \in DOMAIN lib.by_id THEN Ok(lib.by_id[override])
    ELSE Raise("ValueError: Unknown style_id_override")

\* Lines 249-256 with the stripped override: the template chosen from the
\* library, or the ValueError.
choose_with(lib, style, override) ==
    IF override # <<>>
    THEN IF override \in DOMAIN lib.by_id THEN Ok(lib.by_id[override])
         ELSE Raise("ValueError: Unknown style_id_override")
    ELSE IF style_by_choice(lib.styles, style) = NoneVal
         THEN Raise("ValueError: No style selected.")
         ELSE Ok(style_by_choice(lib.styles, style))

\* Lines 248-256.
choose_style(lib, style, style_id_override) ==
    choose_with(lib, style, strip(or_empty(style_id_override)))

\* Lines 255-271 once `chosen` is known (Ok(template) or the ValueError).
encode_chosen(chosen, prompt, template_variant, loaded) ==
    IF Raised(chosen) THEN Outcome(chosen, <<>>, 1, loaded, NoneVal, "none")
    ELSE encode_tail(styled_with(chosen.ok, prompt, template_variant), 1, loaded, chosen.ok,
                     IF use_flux(chosen.ok, template_variant) THEN "flux" ELSE "default")

\* Fault: a template is chosen also when apply_style is false.
encode_always_chooses(prompt, apply_style, style, template_variant, style_id_override, text_encoder, got) ==
    IF text_encoder = NoneVal
    THEN Outcome(Raise("RuntimeError: text_encoder input is invalid"), <<>>, 0, FALSE,
                 NoneVal, "none")
    ELSE IF Raised(got.result)
    THEN Outcome(got.result, <<>>, 1, got.loaded, NoneVal, "none")
    ELSE IF Raised(choose_style(got.result.ok, style, style_id_override))
    THEN Outcome(choose_style(got.result.ok, style, style_id_override), <<>>, 1, got.loaded,
                 NoneVal, "none")
    ELSE IF ~apply_style
    THEN encode_tail(or_empty(prompt), 1, got.loaded, NoneVal, "none")
    ELSE encode_chosen(choose_style(got.result.ok, style, style_id_override),
                       or_empty(prompt), template_variant, got.loaded)

\* Fault: with apply_style false the prompt is normalized before it is encoded.
encode_normalizing(prompt, apply_style, style, template_variant, style_id_override, text_encoder, got) ==
    IF text_encoder = NoneVal
    THEN Outcome(Raise("RuntimeError: text_encoder input is invalid"), <<>>, 0, FALSE,
                 NoneVal, "none")
    ELSE IF ~apply_style
    THEN encode_tail(norm_space(prompt), 0, FALSE, NoneVal, "none")
    ELSE IF Raised(got.result)
    THEN Outcome(got.result, <<>>, 1, got.loaded, NoneVal, "none")
    ELSE encode_chosen(choose_style(got.result.ok, style, style_id_override),
                       or_empty(prompt), template_variant, got.loaded)

\* Fault: the encoder is looked at only when the text is about to be encoded.
encode_late_encoder_check(prompt, apply_style, style, template_variant, style_id_override, text_encoder, got) ==
    IF ~apply_style
    THEN IF text_encoder = NoneVal
         THEN Outcome(Raise("RuntimeError: text_encoder input is invalid"), <<>>, 0, FALSE,
                      NoneVal, "none")
         ELSE encode_tail(or_empty(prompt), 0, FALSE, NoneVal, "none")
    ELSE IF Raised(got.result)
    THEN Outcome(got.result, <<>>, 1, got.loaded, NoneVal, "none")
    ELSE IF Raised(choose_style(got.result.ok, style, style_id_override))
    THEN Outcome(choose_style(got.result.ok, style, style_id_override), <<>>, 1, got.loaded,
                 NoneVal, "none")
    ELSE IF text_encoder = NoneVal
    THEN Outcome(Raise("RuntimeError: text_encoder input is invalid"), <<>>, 1, got.loaded,
                 NoneVal, "none")
    ELSE encode_chosen(choose_style(got.result.ok, style, style_id_override),
                       or_empty(prompt), template_variant, got.loaded)

\* PromptStylerConditioning.encode against the library call `got` (the value
\* of get_style_library on the current disk and cache; it is used only on the
\* path that reaches line 246).
encode(prompt, apply_style, style, template_variant, style_id_override, text_encoder, got) ==
    IF text_encoder = NoneVal
    THEN Outcome(Raise("RuntimeError: text_encoder input is invalid"), <<>>, 0, FALSE,
                 NoneVal, "none")
    ELSE IF ~apply_style
    THEN encode_tail(or_empty(prompt), 0, FALSE, NoneVal, "none")
    ELSE IF Raised(got.result)
    THEN Outcome(got.result, <<>>, 1, got.loaded, NoneVal, "none")
    ELSE encode_chosen(choose_style(got.result.ok, style, style_id_override),
                       or_empty(prompt), template_variant, got.loaded)

(***************************************************************************)
(* Style data.  The records below are the raw records the disks hold.      *)
(***************************************************************************)
NoirPrefix ==
    <<"c", "i", "n", "e", "m", "a", "t", "i", "c", " ", "f", "i", "l", "m", " ", "s", "t",
      "i", "l", "l", ",", " ", "d", "r", "a", "m", "a", "t", "i", "c", " ", "l", "i", "g",
      "h", "t", "i", "n", "g">>

NoirSuffix ==
    <<"f", "i", "l", "m", " ", "g", "r", "a", "i", "n", ",", " ", "d", "r", "a", "m", "a",
      "t", "i", "c", " ", "l", "i", "g", "h", "t", "i", "n", "g">>

NoirFluxSuffix ==
    <<"S", "t", "y", "l", "e", ":", " ", "f", "i", "l", "m", " ", "n", "o", "i", "r", ".",
      " ", "L", "i", "g", "h", "t", "i", "n", "g", ":", " ", "d", "r", "a", "m", "a", "t",
      "i", "c", " ", "s", "i", "d", "e", " ", "l", "i", "g", "h", "t", "i", "n", "g", ".">>

RecNoir ==
    JDict([id |-> JStr(<<"c", "i", "n", "_", "f", "i", "l", "m", "_", "n", "o", "i", "r">>),
           name |-> JStr(<<"F", "i", "l", "m", " ", "N", "o", "i", "r">>),
           category |-> JStr(<<"C", "i", "n", "e", "m", "a">>),
           default |-> JDict([prefix |-> JStr(NoirPrefix), suffix |-> JStr(NoirSuffix)]),
           models |-> JDict([flux_2_klein |->
                                JDict([prefix |-> JStr(<<>>), suffix |-> JStr(NoirFluxSuffix)])]),
           tags |-> JList(<<JStr(<<"f", "i", "l", "m">>)>>)])

\* No category, no models, no tags; the suffix repeats the prefix in another case.
RecAlpha ==
    JDict([id |-> JStr(<<"s", "1">>),
           name |-> JStr(<<"A", "l", "p", "h", "a">>),
           default |-> JDict([prefix |-> JStr(<<"a">>), suffix |-> JStr(<<"A", ",", " ", "b">>)])])

\* Variant fragments that are blank: whitespace only, and empty.
RecBeta ==
    JDict([id |-> JStr(<<"s", "2">>),
           name |-> JStr(<<"b", "e", "t", "a">>),
           category |-> JStr(<<"c", "i", "n", "e", "m", "a">>),
           default |-> JDict([prefix |-> JStr(<<>>), suffix |-> JStr(<<" ", "a", ",", "\n", "B", " ">>)]),
           models |-> JDict([flux_2_klein |->
                                JDict([prefix |-> JStr(<<" ", "\n">>), suffix |-> JStr(<<>>)])])])

\* Variant fragments that are not blank.
RecGamma ==
    JDict([id |-> JStr(<<"s", "3">>),
           name |-> JStr(<<"G", "a", "m", "m", "a">>),
           category |-> JStr(<<"Z", "o", "o">>),
           default |-> JDict([prefix |-> JStr(<<"b">>), suffix |-> JStr(<<"b", ",", " ", "a">>)]),
           models |-> JDict([flux_2_klein |->
                                JDict([prefix |-> JStr(<<"A", ",", " ", " ", "a">>),
                                       suffix |-> JStr(<<"\t", "a", ",">>)])])])

RecLegacy ==
    JDict([id |-> JStr(<<"o", "l", "d">>),
           name |-> JStr(<<"O", "l", "d">>),
           default |-> JDict([prefix |-> JStr(<<"a">>), suffix |-> JStr(<<>>)])])

\* The root of a style file holding the given records.
StylesRoot(records) ==
    JDict([version |-> JNum(1), styles |-> JList(records)])

NameA ==
    <<"a", ".", "j", "s", "o", "n">>

NameB ==
    <<"B", ".", "J", "S", "O", "N">>

NameTxt ==
    <<"c", ".", "t", "x", "t">>

\* A packs directory with two packs and a file that is no pack, beside a
\* legacy file.
DiskPacks ==
    [isdir |-> TRUE,
     packs |-> (NameA :> File(StylesRoot(<<RecNoir, RecAlpha>>), 0, 40))
               @@ (NameB :> File(StylesRoot(<<RecBeta, RecGamma>>), 0, 41))
               @@ (NameTxt :> File(InvalidJson, 0, 5)),
     legacy |-> File(StylesRoot(<<RecLegacy>>), 0, 20)]

\* No packs directory and no legacy file.
DiskNone ==
    [isdir |-> FALSE, packs |-> <<>>, legacy |-> NoFile]

(***************************************************************************)
(* Inputs.                                                                 *)
(***************************************************************************)
\* The longest prompt built from PromptChars, the number of file changes in
\* one behaviour, and the latest modification time a change can set.
MaxPromptLen ==
    4

MaxChanges ==
    2

MaxTime ==
    1

PromptChars ==
    {"a", ",", " "}

Strings(alphabet, n) ==
    UNION {[1..k -> alphabet] : k \in 0..n}

CatSitting ==
    <<"a", " ", "c", "a", "t", ",", " ", "s", "i", "t", "t", "i", "n", "g">>

ACat ==
    <<"a", " ", "c", "a", "t">>

\* Every short prompt over PromptChars, None, the two prompts of the
\* documented scenarios, and prompts with upper-case letters, line breaks and
\* a tab.
Prompts ==
    {JStr(p) : p \in Strings(PromptChars, MaxPromptLen)}
      \cup {NoneVal, JStr(CatSitting), JStr(ACat),
            JStr(<<"A">>), JStr(<<"A", ",", " ", "a">>), JStr(<<"B", ",", " ", "b">>),
            JStr(<<"a", ",", "\n", "A">>), JStr(<<"b", "\r", "\n", " ", "a">>),
            JStr(<<"\t", "a", " ", " ", "B">>)}

NoirChoice ==
    <<"C", "i", "n", "e", "m", "a", " ", "|", " ", "F", "i", "l", "m",
      " ", "N", "o", "i", "r", " ", "|", " ", "c", "i", "n", "_", "f", "i", "l", "m", "_", "n", "o", "i", "r">>

BetaChoice ==
    <<"c", "i", "n", "e", "m", "a", " ", "|", " ", "b", "e", "t", "a", " ", "|", " ", "s", "2">>

GammaChoice ==
    <<"Z", "o", "o", " ", "|", " ", "G", "a", "m", "m", "a", " ", "|", " ", "s", "3">>

UnknownChoice ==
    <<"Z", "o", "o", " ", "|", " ", "G", "a", "m", "m", "a", " ", "|", " ", "s", "9">>

\* The `style` argument: None, empty, the entry of an empty library, labels of
\* three templates of DiskPacks and a label whose id no template has.
StyleArgs ==
    {NoneVal, JStr(<<>>), JStr(NoStylesChoice), JStr(NoirChoice), JStr(BetaChoice),
     JStr(GammaChoice), JStr(UnknownChoice)}

\* The `style_id_override` argument: None, empty, blank, an id of DiskPacks between
\* spaces and an id no template has.
OverrideArgs ==
    {NoneVal, JStr(<<>>), JStr(<<" ">>), JStr(<<" ", "s", "1", " ">>), JStr(<<"n", "o", "p", "e">>)}

VariantArgs ==
    {"default", FluxKey}

Clip ==
    [clip |-> "CLIP"]

EncoderArgs ==
    {NoneVal, Clip}

(***************************************************************************)
(* State.                                                                  *)
(*   disk                  the style files                                 *)
(*   STYLE_CACHE_*         the four module globals of nodes.py             *)
(*   pc, call              the host: "idle", or "returned" with the record *)
(*                         of the call that just ended                     *)
(*   built_from            history: the disk the cached library was loaded *)
(*                         from (NoneVal before the first load)            *)
(*   changes               history: the number of file changes so far      *)
(***************************************************************************)
VARIABLES disk, STYLE_CACHE_SIG, STYLE_CACHE_STYLES, STYLE_CACHE_BY_ID,
          STYLE_CACHE_CHOICES, pc, call, built_from, changes

cache_vars ==
    <<STYLE_CACHE_SIG, STYLE_CACHE_STYLES, STYLE_CACHE_BY_ID, STYLE_CACHE_CHOICES>>

vars ==
    <<disk, STYLE_CACHE_SIG, STYLE_CACHE_STYLES, STYLE_CACHE_BY_ID,
      STYLE_CACHE_CHOICES, pc, call, built_from, changes>>

CurrentCache ==
    Cache(STYLE_CACHE_SIG, STYLE_CACHE_STYLES, STYLE_CACHE_BY_ID, STYLE_CACHE_CHOICES)

NoCall ==
    [op |-> "none"]

InitDisks ==
    {DiskPacks, DiskNone}

\* Lines 50-53: the cache as the module is imported.
Init ==
    /\ disk \in InitDisks
    /\ STYLE_CACHE_SIG = NoneVal
    /\ STYLE_CACHE_STYLES = <<>>
    /\ STYLE_CACHE_BY_ID = <<>>
    /\ STYLE_CACHE_CHOICES = <<>>
    /\ pc = "idle"
    /\ call = NoCall
    /\ built_from = NoneVal
    /\ changes = 0

\* Fault: a load leaves the old index in place.
StoreLibraryKeepingIndex(got) ==
    /\ STYLE_CACHE_SIG' = got.cache.sig
    /\ STYLE_CACHE_STYLES' = got.cache.styles
    /\ STYLE_CACHE_BY_ID' = STYLE_CACHE_BY_ID
    /\ STYLE_CACHE_CHOICES' = got.cache.choices
    /\ built_from' = IF got.loaded /\ ~Raised(got.result) THEN disk ELSE built_from

\* The globals after a call of _get_style_library that returned `got`.
StoreLibrary(got) ==
    /\ STYLE_CACHE_SIG' = got.cache.sig
    /\ STYLE_CACHE_STYLES' = got.cache.styles
    /\ STYLE_CACHE_BY_ID' = got.cache.by_id
    /\ STYLE_CACHE_CHOICES' = got.cache.choices
    /\ built_from' = IF got.loaded /\ ~Raised(got.result) THEN disk ELSE built_from

\* The host's record of an encode call and its effect on the globals.
EncodeDone(prompt, apply_style, style, template_variant, style_id_override, text_encoder, got, out) ==
    /\ call' = [op |-> "encode", prompt |-> prompt, apply_style |-> apply_style,
                style |-> style, template_variant |-> template_variant,
                style_id_override |-> style_id_override,
                text_encoder |-> text_encoder, out |-> out]
    /\ IF out.library_calls = 1 THEN StoreLibrary(got)
       ELSE UNCHANGED <<cache_vars, built_from>>

EncodeWith(got) ==
    \E prompt \in Prompts, apply_style \in BOOLEAN, style \in StyleArgs,
       template_variant \in VariantArgs, style_id_override \in OverrideArgs,
       text_encoder \in EncoderArgs :
        EncodeDone(prompt, apply_style, style, template_variant, style_id_override,
                   text_encoder, got,
                   encode(prompt, apply_style, style, template_variant,
                          style_id_override, text_encoder, got))

\* PromptStylerConditioning.encode, called by the host with any arguments.
Encode ==
    /\ pc = "idle"
    /\ EncodeWith(get_style_library(disk, CurrentCache, STYLES_PATH))
    /\ pc' = "returned"
    /\ UNCHANGED <<disk, changes>>

\* A call whose result is one part of the library triple.
LibraryCall(op, got, part) ==
    /\ call' = [op |-> op,
                out |-> Outcome(IF Raised(got.result) THEN got.result ELSE Ok(part),
                                <<>>, 1, got.loaded, NoneVal, "none")]
    /\ StoreLibrary(got)

InputTypesWith(got) ==
    LibraryCall("INPUT_TYPES", got, got.cache.choices)

\* PromptStylerConditioning.INPUT_TYPES: the choices of the style dropdown.
InputTypes ==
    /\ pc = "idle"
    /\ InputTypesWith(get_style_library(disk, CurrentCache, STYLES_PATH))
    /\ pc' = "returned"
    /\ UNCHANGED <<disk, changes>>

LoadStylesWith(got) ==
    LibraryCall("load_styles", got, got.cache.styles)

\* load_styles() with the default path.
LoadStyles ==
    /\ pc = "idle"
    /\ LoadStylesWith(get_style_library(disk, CurrentCache, STYLES_PATH))
    /\ pc' = "returned"
    /\ UNCHANGED <<disk, changes>>

\* The host takes the result (or the exception) of the call.
Return ==
    /\ pc = "returned"
    /\ pc' = "idle"
    /\ call' = NoCall
    /\ UNCHANGED <<disk, cache_vars, built_from, changes>>

(***************************************************************************)
(* The style files change: a tool or an editor writes or removes a pack or *)
(* the legacy file, or creates or removes the packs directory.  A write    *)
(* sets the content and size of one of FileImages and any time of Times.   *)
(***************************************************************************)
\* A record whose "tags" is a number: tuple(5) raises TypeError at line 166.
RecBadTags ==
    JDict([id |-> JStr(<<"s", "5">>),
           name |-> JStr(<<"B", "a", "d">>),
           tags |-> JNum(5)])

\* Two contents of one size, the same content at another size, a text that
\* does not parse, and a content on which the load raises.
FileImages ==
    {[json |-> StylesRoot(<<RecAlpha>>), size |-> 30],
     [json |-> StylesRoot(<<RecGamma>>), size |-> 30],
     [json |-> StylesRoot(<<RecAlpha>>), size |-> 31],
     [json |-> InvalidJson, size |-> 7],
     [json |-> StylesRoot(<<RecBadTags>>), size |-> 32]}

Times ==
    0..MaxTime

PackNames ==
    {NameA, NameB, NameTxt}

Changed(d) ==
    /\ pc = "idle"
    /\ changes < MaxChanges
    /\ disk' = d
    /\ changes' = changes + 1
    /\ UNCHANGED <<cache_vars, pc, call, built_from>>

WritePack ==
    /\ disk.isdir
    /\ \E name \in PackNames, img \in FileImages, t \in Times :
        Changed([disk EXCEPT !.packs =
                    [k \in DOMAIN @ \cup {name} |->
                        IF k = name THEN File(img.json, t, img.size) ELSE @[k]]])

RemovePack ==
    /\ disk.isdir
    /\ \E name \in DOMAIN disk.packs :
        Changed([disk EXCEPT !.packs = [k \in DOMAIN @ \ {name} |-> @[k]]])

WriteLegacy ==
    \E img \in FileImages, t \in Times :
        Changed([disk EXCEPT !.legacy = File(img.json, t, img.size)])

RemoveLegacy ==
    /\ disk.legacy # NoFile
    /\ Changed([disk EXCEPT !.legacy = NoFile])

MakePacksDir ==
    /\ ~disk.isdir
    /\ Changed([disk EXCEPT !.isdir = TRUE])

RemovePacksDir ==
    /\ disk.isdir
    /\ Changed([disk EXCEPT !.isdir = FALSE, !.packs = <<>>])

Next ==
    \/ Encode
    \/ InputTypes
    \/ LoadStyles
    \/ Return

\* The node over a disk that does not change.
Spec ==
    Init /\ [][Next]_vars

NextFiles ==
    \/ InputTypes
    \/ LoadStyles
    \/ Return
    \/ WritePack
    \/ RemovePack
    \/ WriteLegacy
    \/ RemoveLegacy
    \/ MakePacksDir
    \/ RemovePacksDir

\* The library read by the host while the style files change.
SpecFiles ==
    Init /\ [][NextFiles]_vars

(***************************************************************************)
(* Style sources of every shape.  The disks below hold, in two packs, in a  *)
(* file of the packs directory that is no pack and in the legacy file,     *)
(* contents that load, contents that do not, and records of odd shapes.    *)
(***************************************************************************)
\* The id of RecAlpha under another name and category.
RecAlphaTwin ==
    JDict([id |-> JStr(<<"s", "1">>),
           name |-> JStr(<<"T", "w", "i", "n">>),
           category |-> JStr(<<"Z", "o", "o">>),
           default |-> JDict([prefix |-> JStr(<<"t">>), suffix |-> JStr(<<>>)])])

\* No "id" key, and a "name" that is null.
RecNoId ==
    JDict([name |-> JStr(<<"N", "o", "I", "d">>)])

RecNullName ==
    JDict([id |-> JStr(<<"s", "6">>), name |-> NoneVal])

\* An "id" and a "name" that are the empty string.
RecEmptyId ==
    JDict([id |-> JStr(<<>>), name |-> JStr(<<"E">>)])

RecEmptyName ==
    JDict([id |-> JStr(<<"s", "7">>), name |-> JStr(<<>>)])

\* A number as id, a bool as name, a string as default, a number as models
\* and a string as tags.
RecShapes ==
    JDict([id |-> JNum(7),
           name |-> JBool(TRUE),
           default |-> JStr(<<"x">>),
           models |-> JNum(3),
           tags |-> JStr(<<"a", "b">>)])

\* A "|" in the name, a null category, a list as default, a string as the
\* variant object and 0 as tags.
RecOdd ==
    JDict([id |-> JStr(<<"s", "8">>),
           name |-> JStr(<<"O", "|", "d">>),
           category |-> NoneVal,
           default |-> JList(<<JNum(1)>>),
           models |-> JDict([flux_2_klein |-> JStr(<<"f">>)]),
           tags |-> JNum(0)])

\* true as tags: tuple(True) raises TypeError at line 166.
RecBoolTags ==
    JDict([id |-> JStr(<<"s", "4">>),
           name |-> JStr(<<"B", "o", "o", "l">>),
           tags |-> JBool(TRUE)])

\* What a file of the style sources can hold: the text of a JSON value, or a
\* text that does not parse.
SourceContents ==
    {StylesRoot(<<RecNoir, RecAlpha>>),
     StylesRoot(<<RecAlphaTwin, RecGamma>>),
     StylesRoot(<<RecAlpha, RecBeta, RecAlphaTwin>>),
     StylesRoot(<<RecNoId, JStr(<<"x">>), RecNullName, RecBeta>>),
     StylesRoot(<<RecNoId, RecNullName>>),
     StylesRoot(<<RecShapes, RecOdd>>),
     StylesRoot(<<RecEmptyId, RecEmptyName>>),
     StylesRoot(<<RecAlpha, RecBadTags>>),
     StylesRoot(<<RecBoolTags>>),
     StylesRoot(<<>>),
     NoneVal,
     JList(<<RecAlpha>>),
     JDict([styles |-> JStr(<<"x">>)]),
     JDict([styles |-> JList(<<JStr(<<"x">>), JNum(1)>>)]),
     InvalidJson}

LegacyContents ==
    {StylesRoot(<<RecLegacy>>), StylesRoot(<<RecAlphaTwin, RecGamma>>), StylesRoot(<<>>),
     StylesRoot(<<RecAlpha, RecBadTags>>), InvalidJson}

\* The packs directory holding the given files (NoFile for a name that is not
\* in the directory).
PacksOf(a, b, c) ==
    LET present == {n \in PackNames :
                      \/ n = NameA /\ a # NoFile
                      \/ n = NameB /\ b # NoFile
                      \/ n = NameTxt /\ c # NoFile}
    IN  [n \in present |-> IF n = NameA THEN a ELSE IF n = NameB THEN b ELSE c]

SourceFiles(contents) ==
    {NoFile} \cup {File(json, 0, 10) : json \in contents}

\* Every disk built from these contents, with and without a packs directory.
SourceDisks ==
    {[isdir |-> TRUE, packs |-> PacksOf(a, b, c), legacy |-> legacy] :
        a \in SourceFiles(SourceContents), b \in SourceFiles(SourceContents),
        c \in SourceFiles({StylesRoot(<<RecLegacy>>)}), legacy \in SourceFiles(LegacyContents)}
    \cup {[isdir |-> FALSE, packs |-> <<>>, legacy |-> legacy] :
            legacy \in SourceFiles(LegacyContents)}

\* Labels handed to _style_by_choice: None, empty, blank, labels of templates,
\* labels with "|" inside the category or the name, a bare id, an id first
\* and not last, an id no template has, a label that ends with the delimiter.
ChoiceArgs ==
    {NoneVal, JStr(<<>>), JStr(<<" ">>), JStr(NoirChoice), JStr(BetaChoice),
     JStr(NoStylesChoice), JStr(UnknownChoice),
     JStr(<<"s", "2", " ", "|", " ", "A", "|", "B", " ", "|", " ", "x", " ", "|", " ", " ", "s", "1", " ">>),
     JStr(<<"N", "o", "n", "e", " ", "|", " ", "O", "|", "d", " ", "|", " ", "s", "8">>),
     JStr(<<"s", "3">>),
     JStr(<<"s", "1", " ", "|", " ", "A", "l", "p", "h", "a">>),
     JStr(<<"U", "n", "c", "a", "t", "e", "g", "o", "r", "i", "z", "e", "d", " ", "|", " ", "E", " ", "|", " ">>)}

InitSources ==
    /\ disk \in SourceDisks
    /\ STYLE_CACHE_SIG = NoneVal
    /\ STYLE_CACHE_STYLES = <<>>
    /\ STYLE_CACHE_BY_ID = <<>>
    /\ STYLE_CACHE_CHOICES = <<>>
    /\ pc = "idle"
    /\ call = NoCall
    /\ built_from = NoneVal
    /\ changes = 0

\* _load_style_sources() with the default path.
LoadStyleSources ==
    /\ pc = "idle"
    /\ call' = [op |-> "_load_style_sources",
                out |-> Ok(load_style_sources(disk, STYLES_PATH))]
    /\ pc' = "returned"
    /\ UNCHANGED <<disk, cache_vars, built_from, changes>>

\* _style_by_choice(styles, choice) on the templates load_styles() gave last.
StyleByChoice ==
    /\ pc = "idle"
    /\ \E choice \in ChoiceArgs :
          call' = [op |-> "_style_by_choice", styles |-> STYLE_CACHE_STYLES, choice |-> choice,
                   out |-> style_by_choice(STYLE_CACHE_STYLES, choice)]
    /\ pc' = "returned"
    /\ UNCHANGED <<disk, cache_vars, built_from, changes>>

NextSources ==
    \/ InputTypes
    \/ LoadStyles
    \/ LoadStyleSources
    \/ StyleByChoice
    \/ Return

\* The loader and the label lookup over style sources of every shape.
SpecSources ==
    InitSources /\ [][NextSources]_vars

(***************************************************************************)
(* The validation tool (tools/validate_styles.py).  It reads the same      *)
(* styles directory as the loader; what it prints is left out, its exit    *)
(* status is kept.  An exception that leaves main ends the program with    *)
(* the status python gives an uncaught exception.                          *)
(***************************************************************************)
ExitOk ==
    0

ExitInvalid ==
    2

ExitUncaught ==
    1

\* Lines 12-18: the loop over the sorted listing.  json.load raises on a text
\* that does not parse, part.get on a root that is no dict, and extend on a
\* "styles" that cannot be iterated.
RECURSIVE ValidatePacks(_, _, _)
ValidatePacks(d, names, styles) ==
    IF names = <<>> THEN Ok(styles)
    ELSE IF ~endswith(casefold(Head(names)), JsonSuffix)
         THEN ValidatePacks(d, Tail(names), styles)
         ELSE LET f == d.packs[Head(names)]
              IN  IF f.json = InvalidJson THEN Raise("JSONDecodeError")
                  ELSE LET part == py_or(f.json, EmptyDict)
                       IN  IF ~IsDict(part) THEN Raise("AttributeError")
                           ELSE LET more == py_tuple(py_or(dict_get(part, "styles", EmptyList),
                                                           EmptyList))
                                IN  IF Raised(more) THEN more
                                    ELSE ValidatePacks(d, Tail(names), styles \o more.ok)

\* Lines 10-24: the value of `styles` at line 24, a list or another value.
validate_load(d) ==
    IF d.isdir
    THEN LET merged == ValidatePacks(d, SortedNames(DOMAIN d.packs), <<>>)
         IN  IF Raised(merged) THEN merged ELSE Ok(JList(merged.ok))
    ELSE IF d.legacy = NoFile THEN Raise("FileNotFoundError")
         ELSE IF d.legacy.json = InvalidJson THEN Raise("JSONDecodeError")
         ELSE IF ~IsDict(d.legacy.json) THEN Raise("AttributeError")
         ELSE Ok(dict_get(d.legacy.json, "styles", EmptyList))

\* Fault: names that repeat are not looked for.
RECURSIVE ValidateRecordsIdsOnly(_, _, _, _)
ValidateRecordsIdsOnly(styles, ids, names, ok) ==
    IF styles = <<>> THEN Ok(ok)
    ELSE LET s == Head(styles)
         IN  IF ~IsDict(s) THEN Raise("AttributeError")
             ELSE LET sid == dict_get(s, "id", NoneVal)
                      name == dict_get(s, "name", NoneVal)
                      default == dict_get(s, "default", EmptyDict)
                  IN  IF ~Truthy(sid) \/ ~Truthy(name)
                      THEN ValidateRecordsIdsOnly(Tail(styles), ids, names, FALSE)
                      ELSE ValidateRecordsIdsOnly(Tail(styles), ids \cup {sid}, names,
                               /\ ok
                               /\ sid \notin ids
                               /\ IsDict(default)
                               /\ {"prefix", "suffix"} \subseteq DOMAIN default.d)

\* Lines 32-56: the loop over the records; `ok` at its end.  s.get raises on
\* an item that is no dict, and `in` on an id or name that cannot be hashed.
RECURSIVE ValidateRecords(_, _, _, _)
ValidateRecords(styles, ids, names, ok) ==
    IF styles = <<>> THEN Ok(ok)
    ELSE LET s == Head(styles)
         IN  IF ~IsDict(s) THEN Raise("AttributeError")
             ELSE LET sid == dict_get(s, "id", NoneVal)
                      name == dict_get(s, "name", NoneVal)
                      default == dict_get(s, "default", EmptyDict)
                  IN  IF ~Truthy(sid) \/ ~Truthy(name)
                      THEN ValidateRecords(Tail(styles), ids, names, FALSE)
                      ELSE IF IsList(sid) \/ IsDict(sid) \/ IsList(name) \/ IsDict(name)
                      THEN Raise("TypeError")
                      ELSE ValidateRecords(Tail(styles), ids \cup {sid}, names \cup {name},
                               /\ ok
                               /\ sid \notin ids
                               /\ name \notin names
                               /\ IsDict(default)
                               /\ {"prefix", "suffix"} \subseteq DOMAIN default.d)

\* main(): the exit status of the program.
validate_main(d) ==
    LET styles == validate_load(d)
    IN  IF Raised(styles) THEN ExitUncaught
        ELSE IF ~IsList(styles.ok) THEN ExitInvalid
        ELSE LET ok == ValidateRecords(styles.ok.l, {}, {}, TRUE)
             IN  IF Raised(ok) THEN ExitUncaught
                 ELSE IF ~ok.ok THEN ExitInvalid
                 ELSE ExitOk

\* The name of RecAlpha under another id, and a default without suffix.
RecNamesake ==
    JDict([id |-> JStr(<<"s", "9">>),
           name |-> JStr(<<"A", "l", "p", "h", "a">>),
           default |-> JDict([prefix |-> JStr(<<>>), suffix |-> JStr(<<"n">>)])])

RecNoSuffix ==
    JDict([id |-> JStr(<<"s", "0">>),
           name |-> JStr(<<"N", "o", "S">>),
           default |-> JDict([prefix |-> JStr(<<"p">>)])])

ValidateContents ==
    SourceContents \cup {StylesRoot(<<RecNamesake>>), StylesRoot(<<RecGamma, RecNoSuffix>>)}

\* The disks the tool is run on.
ValidateDisks ==
    {[isdir |-> TRUE, packs |-> PacksOf(a, b, c), legacy |-> legacy] :
        a \in SourceFiles(ValidateContents), b \in SourceFiles(ValidateContents),
        c \in SourceFiles({StylesRoot(<<RecLegacy>>)}), legacy \in SourceFiles(LegacyContents)}
    \cup {[isdir |-> FALSE, packs |-> <<>>, legacy |-> legacy] :
            legacy \in SourceFiles(ValidateContents \cup LegacyContents)}

InitValidate ==
    /\ disk \in ValidateDisks
    /\ STYLE_CACHE_SIG = NoneVal
    /\ STYLE_CACHE_STYLES = <<>>
    /\ STYLE_CACHE_BY_ID = <<>>
    /\ STYLE_CACHE_CHOICES = <<>>
    /\ pc = "idle"
    /\ call = NoCall
    /\ built_from = NoneVal
    /\ changes = 0

\* python tools/validate_styles.py
ValidateStyles ==
    /\ pc = "idle"
    /\ call' = [op |-> "validate_styles", out |-> validate_main(disk)]
    /\ pc' = "returned"
    /\ UNCHANGED <<disk, cache_vars, built_from, changes>>

NextValidate ==
    \/ ValidateStyles
    \/ Return

\* The validation tool run on style sources of every shape.
SpecValidate ==
    InitValidate /\ [][NextValidate]_vars

(***************************************************************************)
(* Selection from the dropdown.  The host shows the labels of the library  *)
(* and hands encode the label the user picked, or the id of a template as  *)
(* override.  The disks hold ids that two records share, an id with a "|"  *)
(* in it and an id that begins with a space.                               *)
(***************************************************************************)
RecBarId ==
    JDict([id |-> JStr(<<"a", "|", "b">>),
           name |-> JStr(<<"B", "a", "r">>),
           default |-> JDict([prefix |-> JStr(<<"p">>), suffix |-> JStr(<<>>)])])

RecPadId ==
    JDict([id |-> JStr(<<" ", "x">>),
           name |-> JStr(<<"P", "a", "d">>),
           default |-> JDict([prefix |-> JStr(<<"q">>), suffix |-> JStr(<<>>)])])

ChoiceContents ==
    {StylesRoot(<<RecNoir, RecAlpha>>),
     StylesRoot(<<RecAlpha, RecBeta, RecAlphaTwin>>),
     StylesRoot(<<RecAlphaTwin, RecGamma>>),
     StylesRoot(<<RecBeta, RecGamma>>),
     StylesRoot(<<RecBarId, RecGamma>>),
     StylesRoot(<<RecPadId>>),
     StylesRoot(<<>>)}

ChoiceDisks ==
    {[isdir |-> TRUE, packs |-> PacksOf(a, b, NoFile), legacy |-> legacy] :
        a \in SourceFiles(ChoiceContents), b \in SourceFiles(ChoiceContents),
        legacy \in SourceFiles({StylesRoot(<<RecLegacy>>)})}

InitChoices ==
    /\ disk \in ChoiceDisks
    /\ STYLE_CACHE_SIG = NoneVal
    /\ STYLE_CACHE_STYLES = <<>>
    /\ STYLE_CACHE_BY_ID = <<>>
    /\ STYLE_CACHE_CHOICES = <<>>
    /\ pc = "idle"
    /\ call = NoCall
    /\ built_from = NoneVal
    /\ changes = 0

\* _style_by_choice(styles, label) with the label the dropdown shows for one
\* of the templates load_styles() gave last.
SelectLabel ==
    /\ pc = "idle"
    /\ \E i \in 1..Len(STYLE_CACHE_STYLES) :
          call' = [op |-> "_style_by_choice", styles |-> STYLE_CACHE_STYLES,
                   template |-> STYLE_CACHE_STYLES[i],
                   choice |-> JStr(ChoiceLabel(STYLE_CACHE_STYLES[i])),
                   out |-> style_by_choice(STYLE_CACHE_STYLES,
                                           JStr(ChoiceLabel(STYLE_CACHE_STYLES[i])))]
    /\ pc' = "returned"
    /\ UNCHANGED <<disk, cache_vars, built_from, changes>>

EncodeSelectedWith(got) ==
    \E i \in 1..Len(STYLE_CACHE_STYLES), by_label \in BOOLEAN, template_variant \in VariantArgs :
        LET style == IF by_label THEN JStr(ChoiceLabel(STYLE_CACHE_STYLES[i])) ELSE NoneVal
            style_id_override == IF by_label THEN NoneVal ELSE JStr(STYLE_CACHE_STYLES[i].id)
        IN  EncodeDone(JStr(ACat), TRUE, style, template_variant, style_id_override, Clip, got,
                       encode(JStr(ACat), TRUE, style, template_variant, style_id_override,
                              Clip, got))

\* encode with apply_style true and a template of the library picked by its
\* label in the dropdown, or by its id as override.
EncodeSelected ==
    /\ pc = "idle"
    /\ EncodeSelectedWith(get_style_library(disk, CurrentCache, STYLES_PATH))
    /\ pc' = "returned"
    /\ UNCHANGED <<disk, changes>>

NextChoices ==
    \/ LoadStyles
    \/ SelectLabel
    \/ EncodeSelected
    \/ Return

\* Templates picked from the dropdown of libraries with ids of every kind.
SpecChoices ==
    InitChoices /\ [][NextChoices]_vars

(***************************************************************************)
(* _get_style_library step by step.  Two callers (the threads of the host) *)
(* run lines 134-177 with no lock, one read or write of a module global at *)
(* a time, while the legacy file is rewritten.  `call` holds the frame of  *)
(* each caller: the line it is at, its locals sig, styles, by_id and       *)
(* choices, the globals it has read for its return value, and its result.  *)
(* Two history fields tell what the caller saw: the disk when it computed  *)
(* the signature and the disk when it loaded (NoneVal when it did not).    *)
(***************************************************************************)
Callers ==
    {1, 2}

Frame(line, sig, built, got, out, seen, read_from) ==
    [line |-> line, sig |-> sig, built |-> built, got |-> got, out |-> out,
     seen |-> seen, read_from |-> read_from]

IdleFrame ==
    Frame("idle", NoneVal, NoneVal, <<>>, NoneVal, NoneVal, NoneVal)

\* No packs directory; the legacy file holds one template.
DiskLegacy ==
    [isdir |-> FALSE, packs |-> <<>>, legacy |-> File(StylesRoot(<<RecAlpha>>), 0, 30)]

InitThreads ==
    /\ disk = DiskLegacy
    /\ STYLE_CACHE_SIG = NoneVal
    /\ STYLE_CACHE_STYLES = <<>>
    /\ STYLE_CACHE_BY_ID = <<>>
    /\ STYLE_CACHE_CHOICES = <<>>
    /\ pc = "threads"
    /\ call = [p \in Callers |-> IdleFrame]
    /\ built_from = NoneVal
    /\ changes = 0

\* Caller p moves to frame f; the other caller stays where it is.
Step(p, f) ==
    /\ call' = [call EXCEPT ![p] = f]
    /\ UNCHANGED <<pc, changes>>

\* Line 134: the call begins and computes the signature of the sources.
ComputeSig(p) ==
    /\ pc = "threads"
    /\ call[p].line = "idle"
    /\ Step(p, Frame("135", style_sources_sig(disk, STYLES_PATH), NoneVal, <<>>, NoneVal,
                      disk, NoneVal))
    /\ UNCHANGED <<disk, cache_vars, built_from>>

\* Line 135: one read of _STYLE_CACHE_SIG.
CompareSig(p) ==
    /\ pc = "threads"
    /\ call[p].line = "135"
    /\ Step(p, [call[p] EXCEPT !.line = IF call[p].sig = STYLE_CACHE_SIG THEN "136" ELSE "138"])
    /\ UNCHANGED <<disk, cache_vars, built_from>>

\* Lines 138-171: load the sources and build styles, by_id and choices as
\* locals; an exception ends the call.
LoadAndBuildWith(p, got) ==
    IF Raised(got.result)
    THEN Step(p, [call[p] EXCEPT !.line = "done", !.out = got.result, !.read_from = disk])
    ELSE Step(p, [call[p] EXCEPT !.line = "173", !.read_from = disk,
                                 !.built = [styles |-> got.cache.styles,
                                            by_id |-> got.cache.by_id,
                                            choices |-> got.cache.choices]])

LoadAndBuild(p) ==
    /\ pc = "threads"
    /\ call[p].line = "138"
    /\ LoadAndBuildWith(p, get_style_library(disk, Cache(NoneVal, <<>>, <<>>, <<>>), STYLES_PATH))
    /\ UNCHANGED <<disk, cache_vars, built_from>>

\* Fault: the signature stored is computed again at line 173, from the files
\* as they are then.
WriteSigComputedAgain(p) ==
    /\ pc = "threads"
    /\ call[p].line = "173"
    /\ STYLE_CACHE_SIG' = style_sources_sig(disk, STYLES_PATH)
    /\ Step(p, [call[p] EXCEPT !.line = "174"])
    /\ UNCHANGED <<disk, STYLE_CACHE_STYLES, STYLE_CACHE_BY_ID, STYLE_CACHE_CHOICES, built_from>>

\* Line 173.
WriteSig(p) ==
    /\ pc = "threads"
    /\ call[p].line = "173"
    /\ STYLE_CACHE_SIG' = call[p].sig
    /\ Step(p, [call[p] EXCEPT !.line = "174"])
    /\ UNCHANGED <<disk, STYLE_CACHE_STYLES, STYLE_CACHE_BY_ID, STYLE_CACHE_CHOICES, built_from>>

\* Line 174.
WriteStyles(p) ==
    /\ pc = "threads"
    /\ call[p].line = "174"
    /\ STYLE_CACHE_STYLES' = call[p].built.styles
    /\ Step(p, [call[p] EXCEPT !.line = "175"])
    /\ UNCHANGED <<disk, STYLE_CACHE_SIG, STYLE_CACHE_BY_ID, STYLE_CACHE_CHOICES, built_from>>

\* Line 175.
WriteById(p) ==
    /\ pc = "threads"
    /\ call[p].line = "175"
    /\ STYLE_CACHE_BY_ID' = call[p].built.by_id
    /\ Step(p, [call[p] EXCEPT !.line = "176"])
    /\ UNCHANGED <<disk, STYLE_CACHE_SIG, STYLE_CACHE_STYLES, STYLE_CACHE_CHOICES, built_from>>

\* Line 176; the history of the cache now names the disk this caller loaded.
WriteChoices(p) ==
    /\ pc = "threads"
    /\ call[p].line = "176"
    /\ STYLE_CACHE_CHOICES' = call[p].built.choices
    /\ built_from' = call[p].read_from
    /\ Step(p, [call[p] EXCEPT !.line = "177", !.built = NoneVal])
    /\ UNCHANGED <<disk, STYLE_CACHE_SIG, STYLE_CACHE_STYLES, STYLE_CACHE_BY_ID>>

\* Lines 136 and 177: the tuple returned is built from three reads of module
\* globals, left to right.
ReadStyles(p) ==
    /\ pc = "threads"
    /\ call[p].line \in {"136", "177"}
    /\ call[p].got = <<>>
    /\ Step(p, [call[p] EXCEPT !.got = <<STYLE_CACHE_STYLES>>])
    /\ UNCHANGED <<disk, cache_vars, built_from>>

ReadById(p) ==
    /\ pc = "threads"
    /\ call[p].line \in {"136", "177"}
    /\ Len(call[p].got) = 1
    /\ Step(p, [call[p] EXCEPT !.got = Append(@, STYLE_CACHE_BY_ID)])
    /\ UNCHANGED <<disk, cache_vars, built_from>>

ReadChoices(p) ==
    /\ pc = "threads"
    /\ call[p].line \in {"136", "177"}
    /\ Len(call[p].got) = 2
    /\ Step(p, [call[p] EXCEPT !.line = "done", !.got = <<>>,
                                !.out = Ok(Append(call[p].got, STYLE_CACHE_CHOICES))])
    /\ UNCHANGED <<disk, cache_vars, built_from>>

\* The caller takes the triple (or the exception) and is free to call again.
ReturnTo(p) ==
    /\ pc = "threads"
    /\ call[p].line = "done"
    /\ Step(p, IdleFrame)
    /\ UNCHANGED <<disk, cache_vars, built_from>>

\* The legacy file is rewritten, at any moment of a call.
RewriteLegacy ==
    /\ pc = "threads"
    /\ changes < MaxChanges
    /\ \E img \in FileImages, t \in Times :
          disk' = [disk EXCEPT !.legacy = File(img.json, t, img.size)]
    /\ changes' = changes + 1
    /\ UNCHANGED <<cache_vars, pc, call, built_from>>

\* The legacy file is replaced, once, by another content with a later
\* modification time.
ReplaceLegacy ==
    /\ pc = "threads"
    /\ disk = DiskLegacy
    /\ disk' = [disk EXCEPT !.legacy = File(StylesRoot(<<RecGamma>>), MaxTime, 30)]
    /\ UNCHANGED <<cache_vars, pc, call, built_from, changes>>

NextThreads ==
    \/ \E p \in Callers : ComputeSig(p)
    \/ \E p \in Callers : CompareSig(p)
    \/ \E p \in Callers : LoadAndBuild(p)
    \/ \E p \in Callers : WriteSig(p)
    \/ \E p \in Callers : WriteStyles(p)
    \/ \E p \in Callers : WriteById(p)
    \/ \E p \in Callers : WriteChoices(p)
    \/ \E p \in Callers : ReadStyles(p)
    \/ \E p \in Callers : ReadById(p)
    \/ \E p \in Callers : ReadChoices(p)
    \/ \E p \in Callers : ReturnTo(p)
    \/ ReplaceLegacy

\* Two callers of _get_style_library without a lock.
SpecThreads ==
    InitThreads /\ [][NextThreads]_vars

NextRewrites ==
    \/ ComputeSig(1)
    \/ CompareSig(1)
    \/ LoadAndBuild(1)
    \/ WriteSig(1)
    \/ WriteStyles(1)
    \/ WriteById(1)
    \/ WriteChoices(1)
    \/ ReadStyles(1)
    \/ ReadById(1)
    \/ ReadChoices(1)
    \/ ReturnTo(1)
    \/ RewriteLegacy

\* One caller, whose calls follow one another, while the legacy file is
\* rewritten between its calls and in the middle of them.
SpecRewrites ==
    InitThreads /\ [][NextRewrites]_vars

(***************************************************************************)
(* The text functions on their own.  _dedupe_phrases is called with phrase *)
(* lists of up to MaxPhrases phrases that differ in case only, differ in   *)
(* letters, or are empty; _norm_space with None and with texts of up to    *)
(* MaxTextLen characters, whitespace of every kind among them.             *)
(***************************************************************************)
MaxPhrases ==
    3

MaxTextLen ==
    4

PhraseArgs ==
    {<<"C", "a", "t">>, <<"c", "a", "t">>, <<"C", "A", "T">>, <<"D", "o", "g">>,
     <<"d", "o", "g">>, <<>>}

PhraseLists ==
    Strings(PhraseArgs, MaxPhrases)

TextChars ==
    {"a", "B", " ", "\t", "\n", "\r"}

TextArgs ==
    {NoneVal} \cup {JStr(s) : s \in Strings(TextChars, MaxTextLen)}

\* _dedupe_phrases(phrases).
DedupePhrases ==
    /\ pc = "idle"
    /\ \E phrases \in PhraseLists :
          call' = [op |-> "_dedupe_phrases", phrases |-> phrases,
                   out |-> dedupe_phrases(phrases)]
    /\ pc' = "returned"
    /\ UNCHANGED <<disk, cache_vars, built_from, changes>>

\* _norm_space(s).
NormSpace ==
    /\ pc = "idle"
    /\ \E s \in TextArgs :
          call' = [op |-> "_norm_space", s |-> s, out |-> norm_space(s)]
    /\ pc' = "returned"
    /\ UNCHANGED <<disk, cache_vars, built_from, changes>>

NextText ==
    \/ DedupePhrases
    \/ NormSpace
    \/ Return

\* The text functions called with every argument of the sets above.
SpecText ==
    Init /\ [][NextText]_vars

(***************************************************************************)
(* Properties.  The operators below state what the text operations are to  *)
(* compute, by position in the text rather than by the loops of the code.  *)
(***************************************************************************)
RefSpaces ==
    {" ", "\t", "\n", "\r"}

\* The characters of an argument; none for an absent one.
RefText(v) ==
    IF v = NoneVal THEN <<>> ELSE v.s

RECURSIVE RefConcat(_)
RefConcat(pieces) ==
    IF pieces = <<>> THEN <<>> ELSE Head(pieces) \o RefConcat(Tail(pieces))

\* The members of a set of numbers in ascending order.
RefAscending(S) ==
    [k \in 1..Cardinality(S) |-> CHOOSE x \in S : Cardinality({y \in S : y < x}) = k - 1]

\* The entries of ps at the positions K, in order.
RefAt(ps, K) ==
    [k \in 1..Cardinality(K) |-> ps[RefAscending(K)[k]]]

\* Whitespace normalization: every character that is not whitespace, in order,
\* with one space where whitespace separated two of them.
RefNormalize(s) ==
    LET word(i) == s[i] \notin RefSpaces
        piece(i) == IF ~word(i) THEN <<>>
                    ELSE IF i > 1 /\ ~word(i - 1) /\ (\E j \in 1..(i - 1) : word(j))
                         THEN <<" ", s[i]>>
                         ELSE <<s[i]>>
    IN  RefConcat([i \in 1..Len(s) |-> piece(i)])

RefTrim(s) ==
    LET W == {i \in 1..Len(s) : s[i] \notin RefSpaces}
    IN  IF W = {} THEN <<>>
        ELSE SubSeq(s, CHOOSE i \in W : \A j \in W : i =< j, CHOOSE i \in W : \A j \in W : j =< i)

\* The phrases of a text: the normalized text cut at every ", ", each piece
\* trimmed, the empty pieces left out.
RefPhrases(s) ==
    LET t == RefNormalize(s)
        n == Len(t)
        cuts == {i \in 1..(n - 1) : t[i] = "," /\ t[i + 1] = " "}
        starts == RefAscending({1} \cup {c + 2 : c \in cuts})
        stop(b) == IF \E c \in cuts : c >= b
                   THEN (CHOOSE c \in cuts : c >= b /\ \A e \in cuts : e >= b => c =< e) - 1
                   ELSE n
        pieces == [k \in 1..Len(starts) |-> RefTrim(SubSeq(t, starts[k], stop(starts[k])))]
    IN  RefAt(pieces, {k \in 1..Len(pieces) : pieces[k] # <<>>})

RefUpper ==
    <<"A", "B", "C", "D", "E", "F", "G", "H", "I", "J", "K", "L", "M",
      "N", "O", "P", "Q", "R", "S", "T", "U", "V", "W", "X", "Y", "Z">>

RefLowerLetters ==
    <<"a", "b", "c", "d", "e", "f", "g", "h", "i", "j", "k", "l", "m",
      "n", "o", "p", "q", "r", "s", "t", "u", "v", "w", "x", "y", "z">>

\* A text with its upper-case letters replaced by lower-case ones.
RefLower(s) ==
    [i \in 1..Len(s) |->
        IF \E k \in 1..Len(RefUpper) : RefUpper[k] = s[i]
        THEN RefLowerLetters[CHOOSE k \in 1..Len(RefUpper) : RefUpper[k] = s[i]]
        ELSE s[i]]

RefSameIgnoringCase(p, q) ==
    RefLower(p) = RefLower(q)

\* The phrases that do not repeat, ignoring case, an earlier phrase.
RefFirstOccurrences(ps) ==
    RefAt(ps, {i \in 1..Len(ps) : \A j \in 1..(i - 1) : ~RefSameIgnoringCase(ps[j], ps[i])})

RefJoin(ps, sep) ==
    RefConcat([i \in 1..Len(ps) |-> IF i = 1 THEN ps[i] ELSE sep \o ps[i]])

RefSplice(prefix, prompt, suffix) ==
    RefJoin(RefFirstOccurrences(RefPhrases(prefix) \o RefPhrases(prompt) \o RefPhrases(suffix)),
            <<",", " ">>)

\* The variant fragments of a template are asked for and not blank.
RefVariantApplies(t, template_variant) ==
    /\ template_variant = "flux_2_klein"
    /\ (RefTrim(t.flux_prefix) # <<>> \/ RefTrim(t.flux_suffix) # <<>>)

RefElements(ps) ==
    {ps[i] : i \in 1..Len(ps)}

\* The call that just returned is an encode call with apply_style true that
\* returned a styled prompt.
EncodeStyled ==
    /\ call.op = "encode"
    /\ call.apply_style
    /\ ~Raised(call.out.result)

StyledPrompt ==
    call.out.result.ok[2]

CatSittingStyled ==
    <<"c", "i", "n", "e", "m", "a", "t", "i", "c", " ", "f", "i", "l", "m", " ", "s", "t", "i", "l", "l", ",", " ", 
      "d", "r", "a", "m", "a", "t", "i", "c", " ", "l", "i", "g", "h", "t", "i", "n", "g", ",", " ", 
      "a", " ", "c", "a", "t", ",", " ", "s", "i", "t", "t", "i", "n", "g", ",", " ", "f", "i", "l", "m", " ", "g", "r", "a", "i", "n">>

ACatStyled ==
    <<"a", " ", "c", "a", "t", " ", "S", "t", "y", "l", "e", ":", " ", "f", "i", "l", "m", " ", "n", "o", "i", "r", ".", " ", 
      "L", "i", "g", "h", "t", "i", "n", "g", ":", " ", "d", "r", "a", "m", "a", "t", "i", "c", " ", 
      "s", "i", "d", "e", " ", "l", "i", "g", "h", "t", "i", "n", "g", ".">>

\* C1: with apply_style true, on the phrase-splice branch, the styled prompt is
\* the phrases of the prefix, of the prompt and of the suffix, in this order,
\* without the phrases that repeat an earlier one ignoring case, joined with
\* ", "; "a cat, sitting" with the film-noir prefix and suffix gives
\* "cinematic film still, dramatic lighting, a cat, sitting, film grain".
C1_PhraseSplice ==
    (EncodeStyled /\ ~RefVariantApplies(call.out.chosen, call.template_variant)) =>
        /\ StyledPrompt = RefSplice(call.out.chosen.prefix, RefText(call.prompt),
                                    call.out.chosen.suffix)
        /\ (/\ call.prompt = JStr(CatSitting)
            /\ call.out.chosen.prefix = NoirPrefix
            /\ call.out.chosen.suffix = NoirSuffix) => StyledPrompt = CatSittingStyled

C1_Witness ==
    /\ EncodeStyled
    /\ call.template_variant = "default"
    /\ call.prompt = JStr(CatSitting)
    /\ call.out.chosen.prefix = NoirPrefix
    /\ call.out.chosen.suffix = NoirSuffix
    /\ StyledPrompt = CatSittingStyled

\* C2 as claimed: on the phrase-splice branch every phrase of the prompt is a
\* phrase of the styled prompt unless it equals, ignoring case, a phrase of the
\* template's prefix or suffix.
C2_Original ==
    (EncodeStyled /\ ~RefVariantApplies(call.out.chosen, call.template_variant)) =>
        LET mine == RefPhrases(RefText(call.prompt))
            theirs == RefElements(RefPhrases(call.out.chosen.prefix))
                        \cup RefElements(RefPhrases(call.out.chosen.suffix))
        IN  \A i \in 1..Len(mine) :
                (\A q \in theirs : ~RefSameIgnoringCase(q, mine[i]))
                    => mine[i] \in RefElements(RefPhrases(StyledPrompt))

\* C2, amended: on the phrase-splice branch every phrase of the prompt is a
\* phrase of the styled prompt unless it equals, ignoring case, a phrase of the
\* template's prefix or suffix or an earlier phrase of the prompt itself.
C2_UserPhrasesKept ==
    (EncodeStyled /\ ~RefVariantApplies(call.out.chosen, call.template_variant)) =>
        LET mine == RefPhrases(RefText(call.prompt))
            theirs == RefElements(RefPhrases(call.out.chosen.prefix))
                        \cup RefElements(RefPhrases(call.out.chosen.suffix))
        IN  \A i \in 1..Len(mine) :
                (/\ \A q \in theirs : ~RefSameIgnoringCase(q, mine[i])
                 /\ \A j \in 1..(i - 1) : ~RefSameIgnoringCase(mine[j], mine[i]))
                    => mine[i] \in RefElements(RefPhrases(StyledPrompt))

\* A prompt of two phrases, neither in the style, both kept.
C2_Witness ==
    /\ EncodeStyled
    /\ call.out.branch = "default"
    /\ call.prompt = JStr(<<"B", ",", " ", "b">>)
    /\ call.out.chosen.prefix = NoirPrefix
    /\ <<"B">> \in RefElements(RefPhrases(StyledPrompt))
    /\ <<"b">> \notin RefElements(RefPhrases(StyledPrompt))

\* C3: with apply_style true, the variant asked for and a variant fragment of
\* the template not blank, the styled prompt is the normalized text of the
\* prompt, the variant prefix and the variant suffix joined by single spaces;
\* "a cat" with the film-noir variant suffix gives
\* "a cat Style: film noir. Lighting: dramatic side lighting.".
C3_VariantText ==
    (EncodeStyled /\ RefVariantApplies(call.out.chosen, call.template_variant)) =>
        /\ StyledPrompt = RefNormalize(RefText(call.prompt) \o <<" ">>
                                        \o call.out.chosen.flux_prefix \o <<" ">>
                                        \o call.out.chosen.flux_suffix)
        /\ (/\ call.prompt = JStr(ACat)
            /\ call.out.chosen.flux_prefix = <<>>
            /\ call.out.chosen.flux_suffix = NoirFluxSuffix) => StyledPrompt = ACatStyled

C3_Witness ==
    /\ EncodeStyled
    /\ call.template_variant = "flux_2_klein"
    /\ call.prompt = JStr(ACat)
    /\ call.out.chosen.flux_prefix = <<>>
    /\ call.out.chosen.flux_suffix = NoirFluxSuffix
    /\ StyledPrompt = ACatStyled

\* C4: the variant branch runs exactly when the variant is asked for and a
\* variant fragment of the template is not blank; in every other case the
\* result is the one the same call gives with template_variant "default".
C4_BranchSelection ==
    EncodeStyled =>
        /\ call.out.branch = "flux"
             <=> RefVariantApplies(call.out.chosen, call.template_variant)
        /\ ~RefVariantApplies(call.out.chosen, call.template_variant) =>
             /\ call.out.branch = "default"
             /\ call.out.result
                  = encode(call.prompt, TRUE, call.style, "default", call.style_id_override,
                           call.text_encoder,
                           get_style_library(disk, CurrentCache, STYLES_PATH)).result

\* The variant asked for of a template whose variant fragments are blank.
C4_Witness ==
    /\ EncodeStyled
    /\ call.template_variant = "flux_2_klein"
    /\ call.out.chosen.flux_prefix = <<" ", "\n">>
    /\ call.out.chosen.flux_suffix = <<>>
    /\ call.out.branch = "default"

\* The call that just returned is an encode call with apply_style false.
EncodeUnstyled ==
    /\ call.op = "encode"
    /\ ~call.apply_style

RefSelectionErrors ==
    {"ValueError: Unknown style_id_override", "ValueError: No style selected."}

\* C5: an encode call with apply_style false raises no selection error, does
\* not ask for the style library (the cache stays as it was), and its result is
\* the one of the same call with any other style, template_variant and
\* style_id_override: it depends on the prompt alone.
C5_NoTemplateNeeded ==
    [][(pc = "idle" /\ call'.op = "encode" /\ ~call'.apply_style) =>
          /\ Raised(call'.out.result) => call'.out.result.raise \notin RefSelectionErrors
          /\ call'.out.library_calls = 0
          /\ ~call'.out.loaded
          /\ call'.out.chosen = NoneVal
          /\ UNCHANGED <<cache_vars, built_from>>
          /\ \A s \in StyleArgs, v \in VariantArgs, o \in OverrideArgs :
                encode(call'.prompt, FALSE, s, v, o, call'.text_encoder,
                       get_style_library(disk, CurrentCache, STYLES_PATH)).result
                    = call'.out.result]_vars

\* An unresolvable label and an unknown override id, before any call read the
\* style library.
C5_Witness ==
    /\ EncodeUnstyled
    /\ call.style = JStr(UnknownChoice)
    /\ call.style_id_override = JStr(<<"n", "o", "p", "e">>)
    /\ call.text_encoder = Clip
    /\ ~Raised(call.out.result)
    /\ call.out.library_calls = 0
    /\ STYLE_CACHE_SIG = NoneVal

\* C6 as claimed: with apply_style false the styled prompt is the
\* whitespace-normalized prompt.
C6_Original ==
    (EncodeUnstyled /\ ~Raised(call.out.result)) =>
        StyledPrompt = RefNormalize(RefText(call.prompt))

\* C6, amended: with apply_style false the styled prompt is the prompt as it
\* was given, character for character (the empty text for an absent prompt),
\* and this is the text handed to the encoder.
C6_PromptUnchanged ==
    (EncodeUnstyled /\ ~Raised(call.out.result)) =>
        /\ StyledPrompt = RefText(call.prompt)
        /\ call.out.encoder_calls[1] = <<"tokenize", RefText(call.prompt)>>

\* A prompt that starts with a tab and holds two spaces in a row comes back
\* with both.
C6_Witness ==
    /\ EncodeUnstyled
    /\ ~Raised(call.out.result)
    /\ call.prompt = JStr(<<"\t", "a", " ", " ", "B">>)
    /\ StyledPrompt = <<"\t", "a", " ", " ", "B">>
    /\ StyledPrompt # RefNormalize(RefText(call.prompt))

\* The call that just returned is an encode call with apply_style true and an
\* encoder, for which the style library was read without an exception.
EncodeSelecting ==
    /\ call.op = "encode"
    /\ call.apply_style
    /\ call.text_encoder # NoneVal
    /\ Raised(call.out.result) => call.out.result.raise \in RefSelectionErrors

\* The ids of the templates of the library the call used (the files do not
\* change, so this is the library the cache holds after the call).
RefCatalogIds ==
    {STYLE_CACHE_STYLES[i].id : i \in 1..Len(STYLE_CACHE_STYLES)}

\* The label resolves: the trimmed text after its last "|" (the whole label
\* when it has none) is the id of a template.
RefLabelId(label) ==
    LET bars == {i \in 1..Len(label) : label[i] = "|"}
    IN  RefTrim(SubSeq(label, IF bars = {} THEN 1
                              ELSE (CHOOSE i \in bars : \A j \in bars : j =< i) + 1,
                       Len(label)))

RefLabelResolves(style) ==
    /\ RefText(style) # <<>>
    /\ RefLabelId(RefText(style)) \in RefCatalogIds

\* C7 as claimed: with apply_style true, an override that is not empty and is
\* not an id of the catalog makes encode fail with "Unknown style_id_override",
\* also when the label resolves, and the encoder is not called.
C7_Original ==
    (/\ EncodeSelecting
     /\ RefText(call.style_id_override) # <<>>
     /\ RefText(call.style_id_override) \notin RefCatalogIds) =>
        /\ call.out.result = Raise("ValueError: Unknown style_id_override")
        /\ call.out.encoder_calls = <<>>

\* C7, amended: with apply_style true and an encoder, an override that, with
\* the whitespace around it trimmed, is not empty and is not an id of the
\* catalog makes encode fail with "Unknown style_id_override", also when the
\* label resolves; no styled prompt is returned and the encoder is not called.
C7_UnknownOverride ==
    (/\ EncodeSelecting
     /\ RefTrim(RefText(call.style_id_override)) # <<>>
     /\ RefTrim(RefText(call.style_id_override)) \notin RefCatalogIds) =>
        /\ call.out.result = Raise("ValueError: Unknown style_id_override")
        /\ call.out.encoder_calls = <<>>
        /\ call.out.chosen = NoneVal

\* An unknown override with a label that resolves.
C7_Witness ==
    /\ EncodeSelecting
    /\ call.style_id_override = JStr(<<"n", "o", "p", "e">>)
    /\ RefLabelResolves(call.style)
    /\ call.out.result = Raise("ValueError: Unknown style_id_override")
    /\ call.out.encoder_calls = <<>>

\* C8: with apply_style true and an empty override (absent, empty or blank),
\* encode fails with "No style selected." whenever the label is empty or the
\* trimmed text after its last "|" is the id of no template, which includes
\* the label shown for an empty catalog; nothing is returned and the encoder
\* is not called.
C8_NoStyleSelected ==
    (/\ EncodeSelecting
     /\ RefTrim(RefText(call.style_id_override)) = <<>>
     /\ ~RefLabelResolves(call.style)) =>
        /\ call.out.result = Raise("ValueError: No style selected.")
        /\ call.out.encoder_calls = <<>>
        /\ call.out.chosen = NoneVal

\* A catalog with templates and a well-formed label whose id no template has.
C8_Witness ==
    /\ EncodeSelecting
    /\ call.style_id_override = JStr(<<>>)
    /\ call.style = JStr(UnknownChoice)
    /\ RefCatalogIds # {}
    /\ call.out.result = Raise("ValueError: No style selected.")

\* C9: an encode call without an encoder fails with "text_encoder input is
\* invalid" whatever the other arguments are, without asking for the style
\* library (the cache stays as it was), choosing a template or calling the
\* encoder.
C9_EncoderFirst ==
    [][(pc = "idle" /\ call'.op = "encode" /\ call'.text_encoder = NoneVal) =>
          /\ call'.out.result = Raise("RuntimeError: text_encoder input is invalid")
          /\ call'.out.library_calls = 0
          /\ ~call'.out.loaded
          /\ call'.out.chosen = NoneVal
          /\ call'.out.encoder_calls = <<>>
          /\ UNCHANGED <<cache_vars, built_from>>]_vars

\* No encoder, apply_style true and an unknown override, before any call read
\* the style library.
C9_Witness ==
    /\ call.op = "encode"
    /\ call.text_encoder = NoneVal
    /\ call.apply_style
    /\ call.style_id_override = JStr(<<"n", "o", "p", "e">>)
    /\ call.style = JStr(<<>>)
    /\ call.out.result = Raise("RuntimeError: text_encoder input is invalid")
    /\ STYLE_CACHE_SIG = NoneVal

\* (mtime, size) of a file, (-1, -1) for a missing one.
RefStat(f) ==
    IF f = NoFile THEN <<-1, -1>> ELSE <<f.mtime, f.size>>

\* The names of the pack files of a disk: the entries of the packs directory
\* whose name ends, ignoring case, with ".json".
RefPackFiles(d) ==
    IF ~d.isdir THEN {}
    ELSE {n \in DOMAIN d.packs :
            /\ Len(n) >= 5
            /\ RefLower(SubSeq(n, Len(n) - 4, Len(n))) = <<".", "j", "s", "o", "n">>}

\* Name a comes before name b in code-point order.
RefNameBefore(a, b) ==
    \E k \in 1..Len(b) :
        /\ \A i \in 1..(k - 1) : i =< Len(a) /\ a[i] = b[i]
        /\ (k > Len(a) \/ (k - 1 < Len(a) /\ Ord(a[k]) < Ord(b[k])))

\* sig is the signature of the style sources of disk d: one (path, mtime,
\* size) for every pack file, in the order of the names, then the one of the
\* legacy file.
RefIsSignature(sig, d) ==
    LET k == Cardinality(RefPackFiles(d))
    IN  /\ Len(sig) = k + 1
        /\ sig[k + 1] = <<STYLES_PATH, RefStat(d.legacy)[1], RefStat(d.legacy)[2]>>
        /\ \A i \in 1..k :
              /\ sig[i][1].dir = "styles/packs"
              /\ sig[i][1].name \in RefPackFiles(d)
              /\ <<sig[i][2], sig[i][3]>> = RefStat(d.packs[sig[i][1].name])
        /\ \A i, j \in 1..k : i < j => RefNameBefore(sig[i][1].name, sig[j][1].name)

\* Between disks a and b a pack file was added or removed, or the
\* modification time or the size of a pack file or of the legacy file changed.
RefSourcesDiffer(a, b) ==
    \/ RefPackFiles(a) # RefPackFiles(b)
    \/ \E n \in RefPackFiles(a) \cap RefPackFiles(b) : RefStat(a.packs[n]) # RefStat(b.packs[n])
    \/ RefStat(a.legacy) # RefStat(b.legacy)

\* The step is a call of INPUT_TYPES or load_styles, which read the library.
LibraryStep ==
    /\ pc = "idle"
    /\ call'.op \in {"INPUT_TYPES", "load_styles"}

\* C10: while the style files change, a library call returns the cached
\* library without loading if and only if the cache holds the signature of the
\* style sources as they are at the call; so the first call loads, a call
\* loads whenever a pack file was added or removed or the modification time or
\* size of a pack file or of the legacy file differs from what the last load
\* that returned saw, and only then; a load that returns stores the signature
\* computed at the call, and one that raises leaves the cache as it was.
C10_RebuildIffSignatureChanged ==
    [][LibraryStep =>
          /\ ~call'.out.loaded
                <=> (STYLE_CACHE_SIG # NoneVal /\ RefIsSignature(STYLE_CACHE_SIG.sig, disk))
          /\ STYLE_CACHE_SIG = NoneVal => call'.out.loaded
          /\ built_from # NoneVal =>
                (call'.out.loaded <=> RefSourcesDiffer(built_from, disk))
          /\ ~call'.out.loaded =>
                /\ UNCHANGED <<cache_vars, built_from>>
                /\ call'.out.result
                     = Ok(IF call'.op = "INPUT_TYPES" THEN STYLE_CACHE_CHOICES
                          ELSE STYLE_CACHE_STYLES)
          /\ (call'.out.loaded /\ ~Raised(call'.out.result)) =>
                /\ RefIsSignature(STYLE_CACHE_SIG'.sig, disk)
                /\ built_from' = disk
          /\ Raised(call'.out.result) =>
                /\ call'.out.loaded
                /\ UNCHANGED <<cache_vars, built_from>>]_vars

\* A call that returned the cached library after a file that is no style
\* source changed.
C10_Witness ==
    /\ call.op = "load_styles"
    /\ ~call.out.loaded
    /\ changes >= 1
    /\ built_from # NoneVal
    /\ built_from # disk
    /\ RefPackFiles(disk) # {}
    /\ RefIsSignature(STYLE_CACHE_SIG.sig, disk)

\* A library was built and is in the cache: the triple the last library call
\* that returned gave.
LibraryBuilt ==
    STYLE_CACHE_SIG # NoneVal

RefLabel(t) ==
    t.category \o <<" ", "|", " ">> \o t.name \o <<" ", "|", " ">> \o t.id

\* The key templates are sorted by: category and name in lower case, and id.
RefSortKey(t) ==
    <<RefLower(t.category), RefLower(t.name), t.id>>

RefKeyBefore(k1, k2) ==
    \/ RefNameBefore(k1[1], k2[1])
    \/ k1[1] = k2[1] /\ RefNameBefore(k1[2], k2[2])
    \/ k1[1] = k2[1] /\ k1[2] = k2[2] /\ RefNameBefore(k1[3], k2[3])

\* Template s sorts before template t: by category, then name, both ignoring
\* case, then id.
RefSortsBefore(s, t) ==
    RefKeyBefore(RefSortKey(s), RefSortKey(t))

\* The place of the i-th key when the keys are sorted, equal keys staying in
\* their order.
RefRankIn(keys, i) ==
    1 + Cardinality({j \in 1..Len(keys) :
                        \/ RefKeyBefore(keys[j], keys[i])
                        \/ j < i /\ ~RefKeyBefore(keys[i], keys[j])})

RefLabelsAtRanks(templates, labels, keys) ==
    \A i \in 1..Len(templates) : labels[RefRankIn(keys, i)] = RefLabel(templates[i])

\* The labels are the labels of the templates sorted by category, name and
\* id: the label of a template is at the place the template has in that order.
RefLabelsSorted(templates, labels) ==
    /\ Len(labels) = Len(templates)
    /\ RefLabelsAtRanks(templates, labels,
                        [j \in 1..Len(templates) |-> RefSortKey(templates[j])])

\* The records of a load that give a template: those with an id and a name.
RefKept(records) ==
    RefAt(records, {i \in 1..Len(records) :
                        /\ "id" \in DOMAIN records[i].d /\ records[i].d.id # NoneVal
                        /\ "name" \in DOMAIN records[i].d /\ records[i].d.name # NoneVal})

Resolved ==
    call.op = "_style_by_choice"

\* C12: _style_by_choice returns a template of the given ones whose id is the
\* trimmed text after the last "|" of the label, whatever stands before that
\* "|", and returns None exactly when the label is empty (or None) or no
\* template has that id; "Cinema | Film Noir | cin_film_noir" gives the
\* template with the id cin_film_noir.
C12_ResolveByLastBar ==
    Resolved =>
        LET label == RefText(call.choice)
            with_id == {i \in 1..Len(call.styles) : call.styles[i].id = RefLabelId(label)}
        IN  /\ call.out = NoneVal <=> (label = <<>> \/ with_id = {})
            /\ call.out # NoneVal =>
                  /\ \E i \in with_id : call.out = call.styles[i]
                  /\ call.out.id = RefLabelId(label)
            /\ (call.choice = JStr(NoirChoice) /\ with_id # {}) =>
                  call.out.id = <<"c", "i", "n", "_", "f", "i", "l", "m", "_", "n", "o", "i", "r">>

\* A label with "|" inside its name part and spaces around the id resolves to
\* the template with that id, not to the one named first in the label.
C12_Witness ==
    /\ Resolved
    /\ call.choice = JStr(<<"s", "2", " ", "|", " ", "A", "|", "B", " ", "|", " ", "x", " ", "|", " ", " ", "s", "1", " ">>)
    /\ \E i \in 1..Len(call.styles) : call.styles[i].id = <<"s", "2">>
    /\ call.out # NoneVal
    /\ call.out.id = <<"s", "1">>

RefSentinel ==
    <<"(", "n", "o", " ", "s", "t", "y", "l", "e", "s", " ", "f", "o", "u", "n", "d", ")", " ", "|", " ", "(", "n", "o", " ", "s", "t", "y", "l", "e", "s", ")", " ", "|", " ", "_", "_", "n", "o", "n", "e", "_", "_">>

\* C13: the labels of a library are never the empty list.  When the load gave
\* no template (no source, no readable source, or no record with an id and a
\* name) the templates and the index are empty and the labels are the one
\* entry "(no styles found) | (no styles) | __none__"; when it gave a template
\* that entry is not among the labels.  INPUT_TYPES returns these labels.
C13_SentinelWhenEmpty ==
    /\ LibraryBuilt =>
          /\ STYLE_CACHE_CHOICES # <<>>
          /\ STYLE_CACHE_STYLES = <<>> <=> RefKept(load_style_sources(disk, STYLES_PATH)) = <<>>
          /\ STYLE_CACHE_STYLES = <<>> =>
                /\ DOMAIN STYLE_CACHE_BY_ID = {}
                /\ STYLE_CACHE_CHOICES = <<RefSentinel>>
          /\ STYLE_CACHE_STYLES # <<>> => RefSentinel \notin RefElements(STYLE_CACHE_CHOICES)
    /\ (call.op = "INPUT_TYPES" /\ ~Raised(call.out.result)) =>
          /\ call.out.result.ok # <<>>
          /\ call.out.result.ok = STYLE_CACHE_CHOICES

\* A pack with records, none of which has an id and a name: the one entry.
C13_Witness ==
    /\ call.op = "INPUT_TYPES"
    /\ ~Raised(call.out.result)
    /\ call.out.result.ok = <<RefSentinel>>
    /\ load_style_sources(disk, STYLES_PATH) # <<>>
    /\ STYLE_CACHE_STYLES = <<>>

\* The records a file gives: the objects in the "styles" list of its root
\* object; none for a missing file, a text that does not parse, a root that is
\* no object or a "styles" that is no list.
RefRecords(f) ==
    IF f = NoFile THEN <<>>
    ELSE IF "d" \notin DOMAIN f.json THEN <<>>
    ELSE IF "styles" \notin DOMAIN f.json.d THEN <<>>
    ELSE IF "l" \notin DOMAIN f.json.d.styles THEN <<>>
    ELSE LET items == f.json.d.styles.l
         IN  RefAt(items, {i \in 1..Len(items) : "d" \in DOMAIN items[i]})

\* The pack files of a disk in the order of their names.
RefPacksInOrder(d) ==
    LET S == RefPackFiles(d)
    IN  [k \in 1..Cardinality(S) |->
            CHOOSE n \in S : Cardinality({m \in S : RefNameBefore(m, n)}) = k - 1]

\* The records of all pack files, in the order of the file names.
RefPackRecords(d) ==
    RefConcat([k \in 1..Len(RefPacksInOrder(d)) |-> RefRecords(d.packs[RefPacksInOrder(d)[k]])])

\* The call that just returned is a call of _load_style_sources.
SourcesLoaded ==
    call.op = "_load_style_sources"

\* C14: with pack files, _load_style_sources returns (it does not raise); a
\* pack that cannot be read or parsed adds nothing, and when a pack gives a
\* record the result is the records of the packs in the order of the file
\* names, whatever the legacy file holds.
C14_PacksMerged ==
    (SourcesLoaded /\ RefPackFiles(disk) # {}) =>
        /\ ~Raised(call.out)
        /\ RefPackRecords(disk) # <<>> =>
              /\ call.out.ok = RefPackRecords(disk)
              /\ \A legacy \in SourceFiles(LegacyContents) :
                    load_style_sources([disk EXCEPT !.legacy = legacy], STYLES_PATH)
                        = call.out.ok

\* A pack that does not parse, sorted before a pack with records, and a
\* legacy file with records: the records of the second pack alone.
C14_Witness ==
    /\ SourcesLoaded
    /\ RefPackFiles(disk) = {NameA, NameB}
    /\ disk.packs[NameB].json = InvalidJson
    /\ RefRecords(disk.packs[NameA]) # <<>>
    /\ RefRecords(disk.legacy) # <<>>
    /\ call.out.ok = RefRecords(disk.packs[NameA])

\* C15: with pack files that give no record at all, _load_style_sources
\* returns the records of the legacy file, and the empty list when the legacy
\* file is missing or does not parse; it does not raise.  With pack files that
\* give a record, no record of the result comes from the legacy file.
C15_LegacyFallback ==
    (SourcesLoaded /\ RefPackFiles(disk) # {}) =>
        /\ ~Raised(call.out)
        /\ RefPackRecords(disk) = <<>> => call.out.ok = RefRecords(disk.legacy)
        /\ RefPackRecords(disk) # <<>> =>
              \A i \in 1..Len(call.out.ok) :
                  \E n \in RefPackFiles(disk) :
                      call.out.ok[i] \in RefElements(RefRecords(disk.packs[n]))

\* Two packs, one that does not parse and one whose list is empty: the
\* records of the legacy file.
C15_Witness ==
    /\ SourcesLoaded
    /\ RefPackFiles(disk) = {NameA, NameB}
    /\ disk.packs[NameA].json = InvalidJson
    /\ disk.packs[NameB].json = StylesRoot(<<>>)
    /\ RefRecords(disk.legacy) # <<>>
    /\ call.out.ok = RefRecords(disk.legacy)

\* The source files of a disk cannot be read: no pack file gives a record and
\* the legacy file is missing or does not parse.
RefNothingReadable(d) ==
    /\ RefPackRecords(d) = <<>>
    /\ d.legacy = NoFile \/ d.legacy.json = InvalidJson

\* C16: without pack files _load_style_sources returns the records of the
\* legacy file, and the empty list when that file is missing or does not
\* parse.  No library call raises OSError or a parse error: when no source
\* can be read the call returns the empty library with its one label.
C16_LegacyAlone ==
    /\ (SourcesLoaded /\ RefPackFiles(disk) = {}) =>
          /\ ~Raised(call.out)
          /\ call.out.ok = RefRecords(disk.legacy)
    /\ call.op \in {"INPUT_TYPES", "load_styles"} =>
          /\ Raised(call.out.result) => call.out.result.raise = "TypeError"
          /\ RefNothingReadable(disk) =>
                /\ ~Raised(call.out.result)
                /\ STYLE_CACHE_STYLES = <<>>
                /\ DOMAIN STYLE_CACHE_BY_ID = {}
                /\ STYLE_CACHE_CHOICES = <<RefSentinel>>

\* No packs directory and a legacy file that does not parse: INPUT_TYPES
\* returns the one label of the empty library.
C16_Witness ==
    /\ call.op = "INPUT_TYPES"
    /\ ~disk.isdir
    /\ disk.legacy # NoFile
    /\ disk.legacy.json = InvalidJson
    /\ call.out.result = Ok(<<RefSentinel>>)

\* The records of the load the library in the cache was built from (the
\* files do not change).
RefLoaded ==
    load_style_sources(disk, STYLES_PATH)

\* C17: a record without an id or a name gives no template, no index entry
\* and no label, and does not make the call raise; every template of the
\* library has an id and a name that are not empty.
C17_SkippedAndNamed ==
    LibraryBuilt =>
        /\ Len(STYLE_CACHE_STYLES) = Len(RefKept(RefLoaded))
        /\ Cardinality(DOMAIN STYLE_CACHE_BY_ID) =< Len(RefKept(RefLoaded))
        /\ STYLE_CACHE_STYLES # <<>> => Len(STYLE_CACHE_CHOICES) = Len(RefKept(RefLoaded))
        /\ \A i \in 1..Len(STYLE_CACHE_STYLES) :
              /\ STYLE_CACHE_STYLES[i].id # <<>>
              /\ STYLE_CACHE_STYLES[i].name # <<>>

\* The part of C17 about the records that are left out.
C17_SkippedOnly ==
    LibraryBuilt =>
        /\ Len(STYLE_CACHE_STYLES) = Len(RefKept(RefLoaded))
        /\ Cardinality(DOMAIN STYLE_CACHE_BY_ID) =< Len(RefKept(RefLoaded))
        /\ STYLE_CACHE_STYLES # <<>> => Len(STYLE_CACHE_CHOICES) = Len(RefKept(RefLoaded))

\* The value of a record is no object: the key is missing or holds something
\* that is not an object.
RefNoObject(r, key) ==
    key \notin DOMAIN r \/ "d" \notin DOMAIN r[key]

\* What C18 says of the fields of a template built from record r.
RefCoerced(r, t) ==
    /\ RefNoObject(r, "default") => t.prefix = <<>> /\ t.suffix = <<>>
    /\ (RefNoObject(r, "models") \/ RefNoObject(r.models.d, "flux_2_klein")) =>
          t.flux_prefix = <<>> /\ t.flux_suffix = <<>>
    /\ "category" \notin DOMAIN r =>
          t.category = <<"U", "n", "c", "a", "t", "e", "g", "o", "r", "i", "z", "e", "d">>

\* C18: building the templates raises no type error whatever the shapes of
\* the fields of the records: no library call raises; a default, models or
\* variant value that is no object gives empty fragments and a missing
\* category gives "Uncategorized".
C18_NoTypeError ==
    /\ call.op \in {"INPUT_TYPES", "load_styles"} => ~Raised(call.out.result)
    /\ LibraryBuilt =>
          \A i \in 1..Len(STYLE_CACHE_STYLES) :
              RefCoerced(RefKept(RefLoaded)[i].d, STYLE_CACHE_STYLES[i])

\* The part of C18 about the fields that are coerced.
C18_CoercedOnly ==
    LibraryBuilt =>
        \A i \in 1..Len(STYLE_CACHE_STYLES) :
            RefCoerced(RefKept(RefLoaded)[i].d, STYLE_CACHE_STYLES[i])

RefIds(templates) ==
    {templates[i].id : i \in 1..Len(templates)}

\* The last template with the given id.
RefLastWithId(templates, id) ==
    templates[CHOOSE i \in 1..Len(templates) :
                 /\ templates[i].id = id
                 /\ \A j \in 1..Len(templates) : templates[j].id = id => j =< i]

\* C19: when loaded records share an id, the index holds for that id the
\* template of the later record, both templates are in the template list and
\* both have a label; there are as many templates and labels as records with
\* an id and a name, however many ids are distinct.
C19_LastWins ==
    LibraryBuilt =>
        /\ DOMAIN STYLE_CACHE_BY_ID = RefIds(STYLE_CACHE_STYLES)
        /\ \A id \in RefIds(STYLE_CACHE_STYLES) :
              STYLE_CACHE_BY_ID[id] = RefLastWithId(STYLE_CACHE_STYLES, id)
        /\ Len(STYLE_CACHE_STYLES) = Len(RefKept(RefLoaded))
        /\ STYLE_CACHE_STYLES # <<>> =>
              /\ Len(STYLE_CACHE_CHOICES) = Len(RefKept(RefLoaded))
              /\ \A i \in 1..Len(STYLE_CACHE_STYLES) :
                    RefLabel(STYLE_CACHE_STYLES[i]) \in RefElements(STYLE_CACHE_CHOICES)

\* Two records with the id s1, the later named Twin: the index holds Twin,
\* the list holds both.
C19_Witness ==
    /\ LibraryBuilt
    /\ Len(STYLE_CACHE_STYLES) = 3
    /\ Len(STYLE_CACHE_CHOICES) = 3
    /\ Cardinality(DOMAIN STYLE_CACHE_BY_ID) = 2
    /\ STYLE_CACHE_STYLES[1].id = <<"s", "1">>
    /\ STYLE_CACHE_STYLES[1].name = <<"A", "l", "p", "h", "a">>
    /\ STYLE_CACHE_STYLES[3].id = <<"s", "1">>
    /\ STYLE_CACHE_BY_ID[<<"s", "1">>].name = <<"T", "w", "i", "n">>

\* The four globals hold one build of the style sources of disk d: the
\* signature of d, the templates of the records d gives, the index of these
\* templates and their labels.
RefBuildOf(d, kept) ==
    /\ RefIsSignature(STYLE_CACHE_SIG.sig, d)
    /\ Len(STYLE_CACHE_STYLES) = Len(kept)
    /\ \A i \in 1..Len(kept) :
          /\ STYLE_CACHE_STYLES[i].id = py_str(kept[i].d.id)
          /\ STYLE_CACHE_STYLES[i].name = py_str(kept[i].d.name)
    /\ DOMAIN STYLE_CACHE_BY_ID = RefIds(STYLE_CACHE_STYLES)
    /\ \A k \in DOMAIN STYLE_CACHE_BY_ID :
          /\ STYLE_CACHE_BY_ID[k].id = k
          /\ STYLE_CACHE_BY_ID[k] \in RefElements(STYLE_CACHE_STYLES)
    /\ IF STYLE_CACHE_STYLES = <<>> THEN STYLE_CACHE_CHOICES = <<RefSentinel>>
       ELSE RefLabelsSorted(STYLE_CACHE_STYLES, STYLE_CACHE_CHOICES)

RefOneBuild(d) ==
    RefBuildOf(d, RefKept(load_style_sources(d, STYLES_PATH)))

\* The cache is as the module starts with it, or holds one build.
RefCacheWhole ==
    IF STYLE_CACHE_SIG = NoneVal
    THEN /\ STYLE_CACHE_STYLES = <<>>
         /\ DOMAIN STYLE_CACHE_BY_ID = {}
         /\ STYLE_CACHE_CHOICES = <<>>
         /\ built_from = NoneVal
    ELSE /\ built_from # NoneVal
         /\ RefOneBuild(built_from)

\* C20: while library calls and file changes follow one another, the
\* signature, the templates, the index and the labels in the cache always
\* come from one build (the index has the ids of the templates as keys and
\* holds under k a template with the id k, the labels are the labels of the
\* templates or the one sentinel entry, the signature is the one of the
\* files that build read).  A call that loads and returns replaces all four
\* by the build of the files as they are; a call that finds the signature
\* unchanged returns the cached library and changes nothing, and so does every
\* other step, a load that raises included.
C20_CacheReplacedWhole ==
    /\ []RefCacheWhole
    /\ [][IF LibraryStep /\ call'.out.loaded /\ ~Raised(call'.out.result)
          THEN /\ built_from' = disk
               /\ STYLE_CACHE_SIG' # NoneVal
               /\ <<STYLE_CACHE_SIG', STYLE_CACHE_STYLES', STYLE_CACHE_BY_ID',
                    STYLE_CACHE_CHOICES'>>
                    = LET new == get_style_library(disk, Cache(NoneVal, <<>>, <<>>, <<>>),
                                                   STYLES_PATH).cache
                      IN  <<new.sig, new.styles, new.by_id, new.choices>>
          ELSE /\ UNCHANGED <<cache_vars, built_from>>
               /\ (LibraryStep /\ ~Raised(call'.out.result)) =>
                     call'.out.result = Ok(IF call'.op = "INPUT_TYPES" THEN STYLE_CACHE_CHOICES
                                           ELSE STYLE_CACHE_STYLES)]_vars

\* After a build the files changed and the next load raised: the cache still
\* holds the whole earlier build.
C20_Witness ==
    /\ call.op = "INPUT_TYPES"
    /\ call.out.loaded
    /\ Raised(call.out.result)
    /\ LibraryBuilt
    /\ built_from # disk
    /\ STYLE_CACHE_STYLES # <<>>
    /\ RefOneBuild(built_from)

\* C21: _dedupe_phrases returns the phrases that repeat no earlier phrase when
\* case is ignored, each as it was written and in the order of the list; the
\* later repeats are left out and nothing else is, the empty phrase included
\* (["Cat", "cat", "Dog"] gives ["Cat", "Dog"]).
C21_FirstOccurrences ==
    call.op = "_dedupe_phrases" =>
        /\ call.out = RefFirstOccurrences(call.phrases)
        /\ call.phrases = <<<<"C", "a", "t">>, <<"c", "a", "t">>, <<"D", "o", "g">>>> =>
               call.out = <<<<"C", "a", "t">>, <<"D", "o", "g">>>>

\* The list of the example, with its answer.
C21_Witness ==
    /\ call.op = "_dedupe_phrases"
    /\ call.phrases = <<<<"C", "a", "t">>, <<"c", "a", "t">>, <<"D", "o", "g">>>>
    /\ call.out = <<<<"C", "a", "t">>, <<"D", "o", "g">>>>

\* C22: _norm_space gives a text that _norm_space leaves as it is: without
\* carriage return or line feed, without whitespace at either end and without
\* two whitespace characters next to each other; it is the words of the
\* argument with one space between them, and None gives what "" gives.
C22_NormalizeIdempotent ==
    call.op = "_norm_space" =>
        LET out == call.out
        IN  /\ norm_space(JStr(out)) = out
            /\ \A i \in 1..Len(out) : out[i] \notin {"\r", "\n"}
            /\ out # <<>> => (out[1] \notin RefSpaces /\ out[Len(out)] \notin RefSpaces)
            /\ \A i \in 1..(Len(out) - 1) : ~(out[i] \in RefSpaces /\ out[i + 1] \in RefSpaces)
            /\ out = RefNormalize(RefText(call.s))
            /\ call.s = NoneVal => out = norm_space(JStr(<<>>))

\* A text with a carriage return and a line feed between its two words.
C22_Witness ==
    /\ call.op = "_norm_space"
    /\ call.s = JStr(<<"a", "\r", "\n", "B">>)
    /\ call.out = <<"a", " ", "B">>

\* The items of the "styles" list of a file; none when the file has no such
\* list.
RefItems(f) ==
    IF f = NoFile THEN <<>>
    ELSE IF "d" \notin DOMAIN f.json THEN <<>>
    ELSE IF "styles" \notin DOMAIN f.json.d THEN <<>>
    ELSE IF "l" \notin DOMAIN f.json.d.styles THEN <<>>
    ELSE f.json.d.styles.l

\* The records the validation tool is run over: those of all packs when
\* there is a packs directory, those of the legacy file when there is none.
RefMerged(d) ==
    IF d.isdir
    THEN RefConcat([k \in 1..Len(RefPacksInOrder(d)) |-> RefItems(d.packs[RefPacksInOrder(d)[k]])])
    ELSE RefItems(d.legacy)

\* Record r has a value under key that is not null and not the empty string.
RefHas(r, key) ==
    /\ "d" \in DOMAIN r
    /\ key \in DOMAIN r.d
    /\ r.d[key] # NoneVal
    /\ r.d[key] # JStr(<<>>)

\* Two of the records have the same value under key.
RefShared(recs, key) ==
    \E i, j \in 1..Len(recs) :
        /\ i < j
        /\ RefHas(recs[i], key)
        /\ RefHas(recs[j], key)
        /\ recs[i].d[key] = recs[j].d[key]

RefLacking(recs) ==
    \E i \in 1..Len(recs) : ~RefHas(recs[i], "id") \/ ~RefHas(recs[i], "name")

RefDefaultWhole(r) ==
    /\ "default" \in DOMAIN r.d
    /\ "d" \in DOMAIN r.d.default
    /\ "prefix" \in DOMAIN r.d.default.d
    /\ "suffix" \in DOMAIN r.d.default.d

\* C23: the validation tool ends with a status other than 0 whenever a
\* record of the merged records has no id or no name (or an empty one), or
\* two records have the same id, or two the same name; when it ends with 0,
\* every record has an id and a name, no id and no name occurs twice, and
\* every default is an object with prefix and suffix.
C23_ValidatorIdentity ==
    call.op = "validate_styles" =>
        LET recs == RefMerged(disk)
        IN  /\ (RefLacking(recs) \/ RefShared(recs, "id") \/ RefShared(recs, "name")) =>
                   call.out # 0
            /\ call.out = 0 =>
                   /\ ~RefLacking(recs)
                   /\ ~RefShared(recs, "id")
                   /\ ~RefShared(recs, "name")
                   /\ \A i \in 1..Len(recs) : RefDefaultWhole(recs[i])

\* Two packs whose records are whole and have ids of their own, one name in
\* both: the tool ends with the status of invalid data.
C23_Witness ==
    /\ call.op = "validate_styles"
    /\ call.out = 2
    /\ disk.isdir
    /\ ~RefLacking(RefMerged(disk))
    /\ ~RefShared(RefMerged(disk), "id")
    /\ RefShared(RefMerged(disk), "name")
    /\ \A i \in 1..Len(RefMerged(disk)) : RefDefaultWhole(RefMerged(disk)[i])

\* C24: in encode with apply_style true, an override that is, trimmed, the id
\* of an index entry makes that entry the template used, whatever the label
\* is (an empty label or one that does not resolve gives no error); with an
\* override that is absent, empty or blank the template used is the one the
\* label resolves to.
C24_OverridePrecedence ==
    EncodeSelecting =>
        LET override == RefTrim(RefText(call.style_id_override))
            label == RefLabelId(RefText(call.style))
        IN  IF override # <<>>
            THEN override \in DOMAIN STYLE_CACHE_BY_ID =>
                    /\ ~Raised(call.out.result)
                    /\ call.out.chosen = STYLE_CACHE_BY_ID[override]
            ELSE ~Raised(call.out.result) =>
                    /\ RefLabelResolves(call.style)
                    /\ call.out.chosen.id = label
                    /\ \E i \in 1..Len(STYLE_CACHE_STYLES) :
                          /\ STYLE_CACHE_STYLES[i] = call.out.chosen
                          /\ \A j \in 1..(i - 1) : STYLE_CACHE_STYLES[j].id # label

\* An override between spaces with the label of another template: the
\* template of the override is used.
C24_Witness ==
    /\ EncodeSelecting
    /\ call.style_id_override = JStr(<<" ", "s", "1", " ">>)
    /\ call.style = JStr(NoirChoice)
    /\ ~Raised(call.out.result)
    /\ call.out.chosen = STYLE_CACHE_BY_ID[<<"s", "1">>]
    /\ call.out.chosen.id # RefLabelId(NoirChoice)

\* C25: an encode call that returns has called the encoder twice: first
\* tokenize with the styled prompt it returns, then the encode step with the
\* tokens tokenize gave, whose conditioning is the first entry of the pair
\* returned; an encode call that fails for an invalid encoder or for the
\* selection has not called the encoder.
C25_EncoderCalls ==
    call.op = "encode" =>
        IF Raised(call.out.result)
        THEN call.out.result.raise
                \in RefSelectionErrors \cup {"RuntimeError: text_encoder input is invalid"} =>
                   call.out.encoder_calls = <<>>
        ELSE LET calls == call.out.encoder_calls
             IN  /\ Len(calls) = 2
                 /\ calls[1] = <<"tokenize", StyledPrompt>>
                 /\ calls[2] = <<"encode_from_tokens_scheduled", Tokens(calls[1][2])>>
                 /\ call.out.result.ok = <<Conditioning(calls[2][2]), calls[1][2]>>
                 /\ ~call.apply_style => StyledPrompt = RefText(call.prompt)

\* A styled run of the example prompt: one tokenize of the styled prompt,
\* then one encode step.
C25_Witness ==
    /\ EncodeStyled
    /\ call.prompt = JStr(CatSitting)
    /\ StyledPrompt # CatSitting
    /\ call.out.encoder_calls
          = << <<"tokenize", StyledPrompt>>,
               <<"encode_from_tokens_scheduled", Tokens(StyledPrompt)>> >>

\* The label of the call resolves to the id of an index entry.
RefLabelInIndex(style) ==
    /\ RefText(style) # <<>>
    /\ RefLabelId(RefText(style)) \in DOMAIN STYLE_CACHE_BY_ID

\* C26: a label ending in "| id" and the override id pick the same template:
\* _style_by_choice returns the index entry of the id its label ends in, and
\* encode called with such a label and no override returns the prompt styled
\* with that index entry.
C26_SameTemplate ==
    /\ (call.op = "_style_by_choice" /\ RefLabelInIndex(call.choice)) =>
           call.out = STYLE_CACHE_BY_ID[RefLabelId(RefText(call.choice))]
    /\ (EncodeSelecting /\ call.style_id_override = NoneVal /\ RefLabelInIndex(call.style)) =>
           /\ ~Raised(call.out.result)
           /\ call.out.chosen = STYLE_CACHE_BY_ID[RefLabelId(RefText(call.style))]
           /\ StyledPrompt = styled_with(STYLE_CACHE_BY_ID[RefLabelId(RefText(call.style))],
                                          RefText(call.prompt), call.template_variant)

\* The id occurs once among the templates of the library.
RefIdOnce(sid) ==
    Cardinality({i \in 1..Len(STYLE_CACHE_STYLES) : STYLE_CACHE_STYLES[i].id = sid}) = 1

\* C26 for the ids one template has: the label and the override pick the
\* same template.
C26_SameTemplateUniqueId ==
    /\ (/\ call.op = "_style_by_choice"
        /\ RefLabelInIndex(call.choice)
        /\ RefIdOnce(RefLabelId(RefText(call.choice)))) =>
           call.out = STYLE_CACHE_BY_ID[RefLabelId(RefText(call.choice))]
    /\ (/\ EncodeSelecting
        /\ call.style_id_override = NoneVal
        /\ RefLabelInIndex(call.style)
        /\ RefIdOnce(RefLabelId(RefText(call.style)))) =>
           /\ ~Raised(call.out.result)
           /\ call.out.chosen = STYLE_CACHE_BY_ID[RefLabelId(RefText(call.style))]

\* C27: the label the dropdown shows for a template of the library resolves
\* to a template with the id of that template.
C27_LabelSelectable ==
    (call.op = "_style_by_choice" /\ "template" \in DOMAIN call) =>
        /\ call.out # NoneVal
        /\ call.out.id = call.template.id

\* An id without "|" and without whitespace at its ends.
RefPlainId(sid) ==
    /\ \A i \in 1..Len(sid) : sid[i] # "|"
    /\ RefTrim(sid) = sid

\* C27 for the ids without "|" and without whitespace at their ends.
C27_LabelSelectablePlainId ==
    (call.op = "_style_by_choice" /\ "template" \in DOMAIN call /\ RefPlainId(call.template.id)) =>
        /\ call.out # NoneVal
        /\ call.out.id = call.template.id

\* What _get_style_library gives on disk d when nothing is cached: the triple
\* built from the files of d, or the exception of the load.
RefFreshLoad(d) ==
    LET got == get_style_library(d, Cache(NoneVal, <<>>, <<>>, <<>>), STYLES_PATH)
    IN  IF Raised(got.result) THEN got.result
        ELSE Ok(<<got.cache.styles, got.cache.by_id, got.cache.choices>>)

\* C28 as claimed: whatever was written before and during a call, the call
\* ends with the catalog a fresh load builds from the files as they are when
\* it ends, as they were when it computed the signature, or as they were
\* when it loaded.
C28_Original ==
    [][(call[1].line # "done" /\ call'[1].line = "done") =>
          \/ call'[1].out = RefFreshLoad(disk)
          \/ call'[1].out = RefFreshLoad(call'[1].seen)
          \/ call'[1].read_from # NoneVal /\ call'[1].out = RefFreshLoad(call'[1].read_from)]_vars

\* C28, amended: with one caller and the legacy file rewritten between and
\* during its calls, a call loads if and only if the stored signature is not
\* the (path, mtime, size) signature of the files as the call saw them; a
\* call that loads ends with the catalog (or the exception) of a fresh load
\* of the files as they were when it loaded them, a call that does not load
\* ends with the catalog of the files the last rebuild loaded, whatever the
\* files hold now; and the signature stored after a call that returns is the
\* one that call computed.
C28_FreshWhenSignatureDiffers ==
    /\ [](call[1].line = "done" =>
            /\ IF call[1].read_from # NoneVal
               THEN call[1].out = RefFreshLoad(call[1].read_from)
               ELSE /\ built_from # NoneVal
                    /\ call[1].out = RefFreshLoad(built_from)
            /\ ~Raised(call[1].out) =>
                  /\ STYLE_CACHE_SIG # NoneVal
                  /\ RefIsSignature(STYLE_CACHE_SIG.sig, call[1].seen))
    /\ [][(call[1].line = "135" /\ call'[1].line # "135") =>
             (call'[1].line = "136")
                = (STYLE_CACHE_SIG # NoneVal
                   /\ RefIsSignature(STYLE_CACHE_SIG.sig, call[1].seen))]_vars

\* The file was rewritten with the modification time and the size it had:
\* the call that follows does not load and ends with the catalog of the
\* content that is gone.
C28_Witness ==
    /\ call[1].line = "done"
    /\ call[1].read_from = NoneVal
    /\ call[1].seen = disk
    /\ ~Raised(call[1].out)
    /\ call[1].out = RefFreshLoad(built_from)
    /\ call[1].out # RefFreshLoad(disk)
    /\ RefStat(disk.legacy) = RefStat(built_from.legacy)

\* The stored signature is the one of the files as they are, so that a call
\* would not load.
RefSignatureCurrent ==
    /\ STYLE_CACHE_SIG # NoneVal
    /\ RefIsSignature(STYLE_CACHE_SIG.sig, disk)

\* C29: a library call whose rebuild raises leaves the signature, the
\* templates, the index and the labels of the cache as they were before the
\* call; the stored signature is then not the one of the files, and the call
\* that comes next on these files loads again.
C29_AbortKeepsCache ==
    [][(LibraryStep /\ Raised(call'.out.result)) =>
          /\ call'.out.loaded
          /\ UNCHANGED cache_vars
          /\ ~RefSignatureCurrent'
          /\ get_style_library(disk', CurrentCache', STYLES_PATH).loaded]_vars

\* A load raised after an earlier build and a file change: the cache holds
\* the earlier build with its signature, which is not the one of the files.
C29_Witness ==
    /\ pc = "returned"
    /\ call.op = "load_styles"
    /\ Raised(call.out.result)
    /\ STYLE_CACHE_SIG # NoneVal
    /\ STYLE_CACHE_STYLES # <<>>
    /\ RefIsSignature(STYLE_CACHE_SIG.sig, built_from)
    /\ ~RefSignatureCurrent

\* The disks the legacy file can be rewritten to.
RefLegacyDisks ==
    {DiskLegacy} \cup {[DiskLegacy EXCEPT !.legacy = File(img.json, t, img.size)] :
                          img \in FileImages, t \in Times}

\* C30: with two callers interleaved at the single reads and writes of the
\* four globals and no lock, every caller that returns has a triple that is
\* the build of one state of the files, and that state has the signature the
\* caller computed (looked at for the calls during which the files stayed as
\* they were, so that only the callers act).
C30_CoherentTriple ==
    \A p \in Callers :
        (call[p].line = "done" /\ ~Raised(call[p].out) /\ call[p].seen = disk) =>
            \E d \in RefLegacyDisks :
                /\ RefIsSignature(call[p].sig.sig, d)
                /\ call[p].out = RefFreshLoad(d)

====
